---------------------------- MODULE Spec2Model ----------------------------
(***************************************************************************)
(* FSST-Rust: the symbol, the counter, the perfect-hash symbol table, the  *)
(* symbol-table builder and the codec, as state machines.                  *)
(*                                                                         *)
(* Representation.  A u64 symbol value is an 8-tuple of bytes, least       *)
(* significant byte first (TLC integers are 32 bits wide).  The packed     *)
(* meta word icl of a Symbol is kept as its three bit fields len (bits     *)
(* 28..31), code (bits 16..27) and ign (bits 0..7); the fields never       *)
(* overlap, so comparing icl words is comparing (len, code, ign)           *)
(* lexicographically.  The arrays of the table and of the counter are kept *)
(* as the finite map of the entries that were written; an entry that was   *)
(* never written reads as the value the constructor gave it.               *)
(***************************************************************************)
EXTENDS Integers, Sequences, FiniteSets, TLC

(***************************************************************************)
(* Program constants (src/src/core/mod.rs).                                *)
(***************************************************************************)
U64_SIZE == 8
CODE_MAX == 512
CODE_MASK == 511
CODE_BASE == 256
CODE_ESCAPE == 255
LEN_BITS == 12
HASH_SHIFT == 15
\* HASH_PRIME = 2971215073; its low 27 bits are HASH_PRIME_HI * 2^14 + HASH_PRIME_LO.
\* Only bits 0..26 of v * HASH_PRIME reach the 12-bit slot index.
HASH_PRIME_HI == 1124
HASH_PRIME_LO == 9441
SAMPLE_TARGET == 65536
TABLE_SIZE == 4096
MAX_LEN == 8
FREE_LEN == 15
TABLE_CAP == 255
FIRST_FRAC == 8
LAST_FRAC == 128
FRAC_STEP == 30
SINGLE_WEIGHT == 8
MULTI_COUNT_FRAC == 5
Little == 0
Big == 1

(***************************************************************************)
(* Bounds of the model.                                                    *)
(***************************************************************************)
\* longest string (in bytes) handed to build_from / encode
MaxLen == 3
\* longest string (in bytes) of a sample collection
MaxSampleLen == 1
\* most strings in a sample collection
MaxStrings == 2
\* bytes in a string that is encoded with a table built from other strings
MaxTargetLen == 2
\* longest byte sequence handed to decode by a caller of the Decoder itself
MaxStreamLen == 7
\* most loops of increments a caller of the counter itself runs between two resets
MaxIncLoops == 2
\* most calls of inc_single on one code between two resets
MaxSingleCalls == 65536
\* most calls of inc_concat on one pair between two resets
MaxConcatCalls == 4096
\* most calls of add by a caller that looks symbols up
MaxAdds == 3
\* one-byte symbols among those a caller of add fills the table with
FillLen1 == 100
\* the length of the long string, enough for more candidates than the table takes
LongLen == 129

(***************************************************************************)
(* Bit and byte helpers.                                                   *)
(***************************************************************************)
Pow2(n) == 2 ^ n

Min(a, b) == IF a < b THEN a ELSE b

RECURSIVE Repeat(_, _, _, _)
\* at most `fuel` turns of a loop: Step is its body, Done its exit test, st its variables
Repeat(Step(_), Done(_), st, fuel) ==
  IF fuel = 0 \/ Done(st) THEN st ELSE Repeat(Step, Done, Step(st), fuel - 1)

Loop8(Step(_), Done(_), st) == Repeat(Step, Done, st, 8)

Loop64(Step(_), Done(_), st) == Repeat(LAMBDA x : Loop8(Step, Done, x), Done, st, 8)

Loop512(Step(_), Done(_), st) == Repeat(LAMBDA x : Loop64(Step, Done, x), Done, st, 8)

\* a while loop, run in nested blocks of 8 turns to keep the evaluation shallow; it
\* takes up to 4096 turns, more than any loop of the program takes on the inputs here
While(Step(_), Done(_), st) == Repeat(LAMBDA x : Loop512(Step, Done, x), Done, st, 8)

\* n turns of a loop without an exit test, n below 2^18
Times(Step(_), st, n) ==
  Repeat(LAMBDA y : [st |-> While(LAMBDA x : [st |-> Step(x.st), n |-> x.n - 1],
                                 LAMBDA x : x.n = 0,
                                 [st |-> y.st, n |-> IF y.n < 4096 THEN y.n ELSE 4096]).st,
                     n |-> IF y.n < 4096 THEN 0 ELSE y.n - 4096],
         LAMBDA y : y.n = 0, [st |-> st, n |-> n], 64).st

Max(a, b) == IF a > b THEN a ELSE b

RECURSIVE BitOp(_, _, _, _)
\* bitwise op on two n-bit naturals; op is "and", "or" or "xor"
BitOp(op, a, b, n) ==
  IF n = 0 THEN 0
  ELSE LET x == a % 2
           y == b % 2
           z == CASE op = "and" -> x * y
                  [] op = "or"  -> IF x + y > 0 THEN 1 ELSE 0
                  [] OTHER      -> (x + y) % 2
       IN z + 2 * BitOp(op, a \div 2, b \div 2, n - 1)

ZeroNum == <<0, 0, 0, 0, 0, 0, 0, 0>>

\* a byte slice zero-extended to 8 bytes (let mut v = [0u8; 8]; v[..len].copy_from_slice(s))
Pad8(bytes) == [i \in 1..U64_SIZE |-> IF i <= Len(bytes) THEN bytes[i] ELSE 0]

\* transmute::<[u8; 8], u64>: the machine's byte order decides which byte is least significant
BytesToU64(endian, bytes) ==
  IF endian = Little THEN bytes ELSE [i \in 1..U64_SIZE |-> bytes[U64_SIZE + 1 - i]]

\* u64::to_ne_bytes / transmute::<u64, [u8; 8]>
U64ToBytes(endian, num) ==
  IF endian = Little THEN num ELSE [i \in 1..U64_SIZE |-> num[U64_SIZE + 1 - i]]

\* num & (0xffffffffffffffff >> ign), ign a multiple of 8 below 64
MaskNum(num, ign) == [i \in 1..U64_SIZE |-> IF 8 * i <= 64 - ign THEN num[i] ELSE 0]

\* num << (8 * k) for k < 8; a shift by 64 bits wraps to a shift by 0 (release build)
ShlBytes(num, k) ==
  LET kk == k % U64_SIZE
  IN [i \in 1..U64_SIZE |-> IF i > kk THEN num[i - kk] ELSE 0]

OrNum(a, b) == [i \in 1..U64_SIZE |-> BitOp("or", a[i], b[i], 8)]

RECURSIVE NumLessFrom(_, _, _)
NumLessFrom(a, b, i) ==
  IF i = 0 THEN FALSE
  ELSE IF a[i] # b[i] THEN a[i] < b[i]
  ELSE NumLessFrom(a, b, i - 1)

\* u64 comparison a < b
NumLess(a, b) == NumLessFrom(a, b, U64_SIZE)

\* fsst_hash(v) & 4095 for v = v0 + 256 v1 + 65536 v2 < 2^24:
\* prime = v * HASH_PRIME; prime ^ (prime >> HASH_SHIFT), low 12 bits
MulPrime27(b) ==
  (b * HASH_PRIME_LO + ((b * HASH_PRIME_HI) % Pow2(13)) * Pow2(14)) % Pow2(27)

fsst_hash(v0, v1, v2) ==
  LET prime == (MulPrime27(v0)
                + (MulPrime27(v1) % Pow2(19)) * Pow2(8)
                + (MulPrime27(v2) % Pow2(11)) * Pow2(16)) % Pow2(27)
  IN BitOp("xor", prime % TABLE_SIZE, (prime \div Pow2(HASH_SHIFT)) % TABLE_SIZE, 12)

(***************************************************************************)
(* Symbol (src/src/core/symbol.rs).                                        *)
(***************************************************************************)
\* ((len << 28) | (code << 16) | ((8 - len) * 8)) as u64, code a u16:
\* bits 12..15 of code land on the length field
compute_icl(code, len) ==
  [len  |-> BitOp("or", len, code \div Pow2(LEN_BITS), 4),
   code |-> code % Pow2(LEN_BITS),
   ign  |-> (8 - len) * 8]

FREE_ICL == [len |-> FREE_LEN, code |-> CODE_MASK, ign |-> 0]

\* a.icl < b.icl on the packed words
IclLess(a, b) ==
  \/ a.len < b.len
  \/ a.len = b.len /\ a.code < b.code
  \/ a.len = b.len /\ a.code = b.code /\ a.ign < b.ign

from_str_bytes(endian, bytes) ==
  LET len == Min(Len(bytes), MAX_LEN)
  IN [num |-> BytesToU64(endian, Pad8(SubSeq(bytes, 1, len))),
      icl |-> compute_icl(CODE_MASK, len)]

from_byte_code(b, code) == [num |-> Pad8(<<b>>), icl |-> compute_icl(code, 1)]

from_str_num(num, len) == [num |-> num, icl |-> compute_icl(CODE_MASK, len)]

free == [num |-> ZeroNum, icl |-> FREE_ICL]

length(s) == s.icl.len

code_of(s) == s.icl.code % CODE_MAX

set_code_len(s, code, len) == [s EXCEPT !.icl = compute_icl(code, len)]

taken(s) == IclLess(s.icl, FREE_ICL)

\* prefix_match without the comparison of the icl words
prefix_match_any_length(s, rhs) == rhs.num = MaskNum(s.num, rhs.icl.ign)

prefix_match(s, rhs) ==
  /\ ~IclLess(s.icl, rhs.icl)
  /\ rhs.num = MaskNum(s.num, rhs.icl.ign)

first(s) == s.num[1]

first2(s) == s.num[1] + 256 * s.num[2]

\* Symbol::hash followed by hash_idx: the slot of the symbol
hash_idx(s) == fsst_hash(s.num[1], s.num[2], s.num[3])

\* impl Add for Symbol
symbol_add(a, b) ==
  LET this_len == length(a)
      concat_len == Min(this_len + length(b), MAX_LEN)
  IN [num |-> OrNum(ShlBytes(b.num, this_len), a.num),
      icl |-> compute_icl(CODE_MASK, concat_len)]

\* impl PartialEq for Symbol
symbol_eq(a, b) == a.num = b.num /\ length(a) = length(b)

\* impl Ord for Symbol: a < b
symbol_less(a, b) == NumLess(a.num, b.num)

\* the bytes Display shows: u64_to_bytes(num)[0..length]
symbol_bytes(endian, s) == SubSeq(U64ToBytes(endian, s.num), 1, length(s))

(***************************************************************************)
(* Arrays as finite maps of the written entries.                           *)
(***************************************************************************)
Put(f, k, v) == (k :> v) @@ f

Get0(f, k) == IF k \in DOMAIN f THEN f[k] ELSE 0

EmptyMap == [x \in {} |-> 0]

(***************************************************************************)
(* Counter (src/src/core/counter.rs).                                      *)
(***************************************************************************)
ENTRY_SIZE == CODE_MAX

\* Counter::new, and the state Counter::reset leaves: every array zero
counter_new ==
  [single_low |-> EmptyMap, single_high |-> EmptyMap,
   concat_low |-> EmptyMap, concat_high |-> EmptyMap]

\* u8::checked_add(a, b).unwrap_or(a)
checked_add_or_self(a, b) == IF a + b > 255 THEN a ELSE a + b

\* u8::wrapping_add(a, 1)
wrapping_inc(a) == (a + 1) % 256

inc_single(c, pos) ==
  LET low == Get0(c.single_low, pos)
      high == Get0(c.single_high, pos)
      c1 == IF low = 0
              THEN [c EXCEPT !.single_high = Put(@, pos, checked_add_or_self(high, 1))]
              ELSE c
  IN [c1 EXCEPT !.single_low = Put(@, pos, wrapping_inc(low))]

inc_concat(c, pos1, pos2) ==
  LET low == Get0(c.concat_low, <<pos1, pos2>>)
      pos_high == pos2 \div 2
      high == Get0(c.concat_high, <<pos1, pos_high>>)
      c1 == IF low = 0
              THEN [c EXCEPT !.concat_high =
                      Put(@, <<pos1, pos_high>>,
                          checked_add_or_self(high, Pow2((pos2 % 2) * 4)))]
              ELSE c
  IN [c1 EXCEPT !.concat_low = Put(@, <<pos1, pos2>>, wrapping_inc(low))]

\* bulk_load(&arr[from..to]) on a little-endian machine: the bytes, zero-extended to 8
bulk_load(bytes) == BytesToU64(Little, Pad8(bytes))

RECURSIVE FirstNonZero(_, _)
\* index (from 0) of the first nonzero entry of seq at or after i, Len(seq) if none
FirstNonZero(seq, i) ==
  IF i >= Len(seq) THEN Len(seq)
  ELSE IF seq[i + 1] # 0 THEN i
  ELSE FirstNonZero(seq, i + 1)

get_single_and_forward(c, pos) ==
  LET to == Min(pos + U64_SIZE, ENTRY_SIZE)
      high == bulk_load([i \in 1..(to - pos) |-> Get0(c.single_high, pos + i - 1)])
      nz == FirstNonZero(high, 0)
      \* high.trailing_zeros() >> 3, or 7 when the word is zero
      zero == IF nz < U64_SIZE THEN nz ELSE 7
      high1 == high[zero + 1]
      pos1 == pos + zero
      low == Get0(c.single_low, pos1)
  IN IF pos1 >= ENTRY_SIZE \/ high1 = 0 THEN [pos |-> pos1, cnt |-> 0]
     ELSE [pos |-> pos1,
           cnt |-> (IF low > 0 THEN high1 - 1 ELSE high1) * 256 + low]

\* the 16 nibbles of a u64, least significant first
Nibbles(num) ==
  [j \in 1..16 |-> IF j % 2 = 1 THEN num[(j + 1) \div 2] % 16 ELSE num[j \div 2] \div 16]

get_concat_and_forward(c, pos1, pos2) ==
  LET start == pos2 \div 2
      end == Min(start + U64_SIZE, ENTRY_SIZE \div 2)
      word == bulk_load([i \in 1..(end - start) |-> Get0(c.concat_high, <<pos1, start + i - 1>>)])
      odd == pos2 % 2
      \* high >>= (pos2 & 1) << 2
      high == [j \in 1..16 |-> IF j + odd <= 16 THEN Nibbles(word)[j + odd] ELSE 0]
      nz == FirstNonZero(high, 0)
      zero == IF nz < 16 THEN nz ELSE 15 - odd
      high1 == high[zero + 1]
      p2 == pos2 + zero
      low == Get0(c.concat_low, <<pos1, p2>>)
  IN IF p2 >= ENTRY_SIZE \/ high1 = 0 THEN [pos |-> p2, cnt |-> 0]
     ELSE [pos |-> p2,
           cnt |-> (IF low > 0 THEN high1 - 1 ELSE high1) * 256 + low]

\* backup_single: single_low followed by single_high
backup_single(c) == [low |-> c.single_low, high |-> c.single_high]

restore_single(c, buf) == [c EXCEPT !.single_low = buf.low, !.single_high = buf.high]

(***************************************************************************)
(* PerfectHashSymbolTable (src/src/core/symbol_table.rs).                  *)
(***************************************************************************)
\* overflow_checks is what the build does on an arithmetic overflow: TRUE panics
\* (overflow checks on, the debug profile), FALSE wraps (the release profile)

ZeroHisto == <<0, 0, 0, 0, 0, 0, 0, 0>>

\* PerfectHashSymbolTable::new
table_new ==
  [byte_codes |-> EmptyMap, short_codes |-> EmptyMap, hash_table |-> EmptyMap,
   symbols |-> EmptyMap, len_histo |-> ZeroHisto, symbol_num |-> 0,
   finalized |-> FALSE]

\* symbols[i] as new() fills it: the mirror of byte i below 256, `unused` above
InitSymbol(i) ==
  IF i < CODE_BASE THEN from_byte_code(i, Pow2(LEN_BITS) + i)
  ELSE from_byte_code(0, CODE_MASK)

\* self.symbols[code]
get_symbol(t, code) == IF code \in DOMAIN t.symbols THEN t.symbols[code] ELSE InitSymbol(code)

\* self.byte_codes[i]; an entry never written holds what new() or finalize() gave all of them
ByteCode(t, i) ==
  IF i \in DOMAIN t.byte_codes THEN t.byte_codes[i]
  ELSE IF t.finalized THEN CODE_MASK + Pow2(LEN_BITS)
  ELSE Pow2(LEN_BITS) + i

\* self.short_codes[i]
ShortCode(t, i) ==
  IF i \in DOMAIN t.short_codes THEN t.short_codes[i]
  ELSE IF t.finalized THEN ByteCode(t, i % 256)
  ELSE Pow2(LEN_BITS) + (i % 256)

\* get_hash_symbol: self.hash_table[hash_idx(hash_value)]
get_hash_symbol(t, idx) == IF idx \in DOMAIN t.hash_table THEN t.hash_table[idx] ELSE free

\* hash_insert that writes the slot without looking whether it is taken
hash_insert_overwrite(t, s) ==
  [ok |-> TRUE, table |-> [t EXCEPT !.hash_table = Put(@, hash_idx(s), s)]]

\* hash_insert: the table after the insert, or the table itself when the slot is taken
hash_insert(t, s) ==
  IF taken(get_hash_symbol(t, hash_idx(s)))
    THEN [ok |-> FALSE, table |-> t]
    ELSE [ok |-> TRUE, table |-> [t EXCEPT !.hash_table = Put(@, hash_idx(s), s)]]

\* add: [ok: the returned bool, panic: the call panicked, table: the table it leaves]
table_add(t, s0, overflow_checks) ==
  LET len == length(s0)
      code == CODE_BASE + t.symbol_num
      s == set_code_len(s0, code, len)
      ins == IF len = 1
               THEN [ok |-> TRUE,
                     table |-> [t EXCEPT !.byte_codes = Put(@, first(s), code + Pow2(LEN_BITS))]]
             ELSE IF len = 2
               THEN [ok |-> TRUE,
                     table |-> [t EXCEPT !.short_codes = Put(@, first2(s), code + 2 * Pow2(LEN_BITS))]]
             ELSE hash_insert(t, s)
      t1 == ins.table
      histo == t1.len_histo[len] + 1
  IN IF ~ins.ok THEN [ok |-> FALSE, panic |-> FALSE, table |-> t]
     \* self.symbols[code as usize] = s: index out of bounds
     ELSE IF code >= CODE_MAX THEN [ok |-> FALSE, panic |-> TRUE, table |-> t1]
     \* self.len_histo[len - 1] += 1 on a u8
     ELSE IF histo > 255 /\ overflow_checks
       THEN [ok |-> FALSE, panic |-> TRUE,
             table |-> [t1 EXCEPT !.symbols = Put(@, code, s), !.symbol_num = @ + 1]]
     ELSE [ok |-> TRUE, panic |-> FALSE,
           table |-> [t1 EXCEPT !.symbols = Put(@, code, s),
                                !.symbol_num = @ + 1,
                                !.len_histo[len] = histo % 256]]

find_longest_symbol_code(t, str_bytes) ==
  LET target_symbol == from_str_bytes(Little, str_bytes)
      src_symbol == get_hash_symbol(t, hash_idx(target_symbol))
      code == ShortCode(t, first2(target_symbol)) % CODE_MAX
  IN IF prefix_match(target_symbol, src_symbol) THEN code_of(src_symbol)
     ELSE IF length(target_symbol) >= 2 /\ code >= CODE_BASE THEN code
     ELSE ByteCode(t, first(target_symbol)) % CODE_MAX

\* encode_for: (code as u8, s_len, out_len)
encode_for(t, target) ==
  LET src_symbol == get_hash_symbol(t, hash_idx(target))
      code == ShortCode(t, first2(target))
  IN IF prefix_match(target, src_symbol)
       THEN [code |-> code_of(src_symbol) % 256, s_len |-> length(src_symbol), out_len |-> 1]
       ELSE [code |-> code % 256,
             s_len |-> code \div Pow2(LEN_BITS),
             out_len |-> 1 + ((code \div CODE_BASE) % 2)]

\* clear, one turn of the loop over the codes CODE_BASE..CODE_BASE + symbol_num
clear_turn(st) ==
  LET t == st.table
      s == get_symbol(t, st.i)
      t1 == CASE length(s) = 1 ->
                   [t EXCEPT !.byte_codes = Put(@, first(s), (first(s) % 256) + Pow2(LEN_BITS))]
              [] length(s) = 2 ->
                   [t EXCEPT !.short_codes = Put(@, first2(s), (first2(s) % 256) + Pow2(LEN_BITS))]
              [] OTHER ->
                   [t EXCEPT !.hash_table = Put(@, hash_idx(s), free)]
  IN [table |-> t1, i |-> st.i + 1]

ClearFrom(t, i) ==
  While(clear_turn, LAMBDA st : st.i >= CODE_BASE + t.symbol_num, [table |-> t, i |-> i]).table

table_clear(t) ==
  [ClearFrom(t, CODE_BASE) EXCEPT !.len_histo = ZeroHisto, !.symbol_num = 0]

\* finalize, first loop: rsum[i + 1] = rsum[i] + len_histo[i] (u8; at most 255 symbols)
RECURSIVE RunningSum(_, _)
RunningSum(histo, i) == IF i <= 1 THEN 0 ELSE RunningSum(histo, i - 1) + histo[i - 1]

\* the turn of finalize's second loop without rsum[len - 1] += 1
renumber_turn_no_advance(t, st) ==
  LET s == get_symbol(t, st.i)
      len == length(s)
      new_code == st.rsum[len]
  IN [new_codes |-> Put(st.new_codes, st.i - CODE_BASE, new_code),
      rsum |-> st.rsum,
      symbols |-> Put(st.symbols, new_code, set_code_len(s, new_code, len)),
      i |-> st.i + 1]

\* finalize, one turn of the second loop, on old code st.i: [new_codes, rsum, symbols, i]
renumber_turn(t, st) ==
  LET s == get_symbol(t, st.i)
      len == length(s)
      new_code == st.rsum[len]
  IN [new_codes |-> Put(st.new_codes, st.i - CODE_BASE, new_code),
      rsum |-> [st.rsum EXCEPT ![len] = (@ + 1) % 256],
      symbols |-> Put(st.symbols, new_code, set_code_len(s, new_code, len)),
      i |-> st.i + 1]

RenumberFrom(t, st, i) ==
  While(LAMBDA x : renumber_turn(t, x), LAMBDA x : x.i >= CODE_BASE + t.symbol_num,
        [new_codes |-> st.new_codes, rsum |-> st.rsum, symbols |-> st.symbols, i |-> i])

table_finalize(t) ==
  LET rsum0 == [i \in 1..MAX_LEN |-> RunningSum(t.len_histo, i) % 256]
      st == RenumberFrom(t, [new_codes |-> EmptyMap, rsum |-> rsum0, symbols |-> t.symbols],
                         CODE_BASE)
      new_codes(idx) == Get0(st.new_codes, idx)
      byte_codes == [i \in DOMAIN t.byte_codes |->
                       IF (t.byte_codes[i] % CODE_MAX) >= CODE_BASE
                         THEN new_codes(t.byte_codes[i] % 256) + Pow2(LEN_BITS)
                         ELSE CODE_MASK + Pow2(LEN_BITS)]
      t1 == [t EXCEPT !.symbols = st.symbols, !.byte_codes = byte_codes, !.finalized = TRUE]
      short_codes == [i \in DOMAIN t.short_codes |->
                        IF (t.short_codes[i] % CODE_MAX) >= CODE_BASE
                          THEN new_codes(t.short_codes[i] % 256)
                               + (t.short_codes[i] \div Pow2(LEN_BITS)) * Pow2(LEN_BITS)
                          ELSE ByteCode(t1, i % 256)]
      hash_table == [i \in DOMAIN t.hash_table |->
                       IF taken(t.hash_table[i])
                         THEN get_symbol(t1, new_codes(code_of(t.hash_table[i]) % 256))
                         ELSE t.hash_table[i]]
  IN [t1 EXCEPT !.short_codes = short_codes, !.hash_table = hash_table]

\* dump, one turn of the symbol loop: the symbol's low `length` bytes, lowest first
dump_turn(t, st) ==
  LET s == get_symbol(t, st.i)
  IN [buf |-> st.buf \o SubSeq(s.num, 1, length(s)), i |-> st.i + 1]

DumpSymbols(t, i) ==
  While(LAMBDA x : dump_turn(t, x), LAMBDA x : x.i >= t.symbol_num, [buf |-> << >>, i |-> i]).buf

\* dump on a machine of the given byte order
table_dump(endian, t) == <<endian>> \o t.len_histo \o DumpSymbols(t, 0)

(***************************************************************************)
(* SymbolTableBuilder (src/src/core/symbol_table.rs).                      *)
(***************************************************************************)
\* count_line, one turn of the loop on [counter, pos, code1, gain, done]
count_turn(t, str_bytes, sample_frac, st) ==
  LET code1 == st.code1
      s1 == get_symbol(t, code1)
      c1 == inc_single(st.counter, code1)
      c2 == IF length(s1) > 1 THEN inc_single(c1, str_bytes[st.pos + 1]) ELSE c1
      \* is_escape_code(code1): code1 < CODE_BASE
      gain1 == st.gain + length(s1) - (1 + (IF code1 < CODE_BASE THEN 1 ELSE 0))
      pos1 == st.pos + length(s1)
      code2 == find_longest_symbol_code(t, SubSeq(str_bytes, pos1 + 1, Len(str_bytes)))
      s2 == get_symbol(t, code2)
      c3 == inc_concat(c2, code1, code2)
      c4 == IF sample_frac >= LAST_FRAC THEN c2
            ELSE IF length(s2) > 1 THEN inc_concat(c3, code1, str_bytes[pos1 + 1])
            ELSE c3
  IN IF pos1 >= Len(str_bytes)
       THEN [counter |-> c2, pos |-> pos1, code1 |-> code1, gain |-> gain1, done |-> TRUE]
       ELSE [counter |-> c4, pos |-> pos1, code1 |-> code2, gain |-> gain1, done |-> FALSE]

\* count_line: [counter, gain]
count_line(c, t, str_bytes, sample_frac) ==
  LET st == While(LAMBDA x : count_turn(t, str_bytes, sample_frac, x), LAMBDA x : x.done,
                  [counter |-> c, pos |-> 0, code1 |-> find_longest_symbol_code(t, str_bytes),
                   gain |-> 0, done |-> FALSE])
  IN [counter |-> st.counter, gain |-> st.gain]

\* compute_freq: sample i (from 0) is skipped when the collection holds more than
\* 128 samples and 1 + ((fsst_hash(1 + i) * sample_frac) & 127) > sample_frac
SkipSample(n, i, sample_frac) ==
  /\ n > 128
  /\ sample_frac < LAST_FRAC
  /\ LET v == 1 + i
         h == fsst_hash(v % 256, (v \div 256) % 256, (v \div 65536) % 256)
     IN 1 + (((h % 128) * sample_frac) % 128) > sample_frac

\* compute_freq, the loop body's effect: the line's counts and gain join the totals
add_line(r, gain) == [counter |-> r.counter, gain |-> gain + r.gain]

RECURSIVE FreqLoop(_, _, _, _, _)
FreqLoop(acc, t, smpl, sample_frac, i) ==
  IF i >= Len(smpl) THEN acc
  ELSE IF SkipSample(Len(smpl), i, sample_frac)
    THEN FreqLoop(acc, t, smpl, sample_frac, i + 1)
  ELSE FreqLoop(add_line(count_line(acc.counter, t, smpl[i + 1], sample_frac), acc.gain),
                t, smpl, sample_frac, i + 1)

compute_freq(c, t, smpl, sample_frac) ==
  FreqLoop([counter |-> c, gain |-> 0], t, smpl, sample_frac, 0)

\* the candidates map is keyed by what Symbol's Hash and Eq read: (num, length)
CandKey(s) == <<s.num, length(s)>>

expand_candidate(cands, s, cnt, sample_frac, cfrac) ==
  IF cnt >= (cfrac * sample_frac) \div 128
    THEN Put(cands, CandKey(s), Get0(cands, CandKey(s)) + length(s) * cnt)
    ELSE cands

\* make_table, one turn of the inner loop over the second code of a pair: [cands, pos2]
pos2_turn(c, t, pos1, sample_frac, cfrac, st) ==
  LET r == get_concat_and_forward(c, pos1, st.pos2)
      s3 == symbol_add(get_symbol(t, pos1), get_symbol(t, r.pos))
  IN [cands |-> IF r.cnt > 0
                  THEN expand_candidate(st.cands, s3, r.cnt, sample_frac, cfrac)
                  ELSE st.cands,
      pos2 |-> r.pos + 1]

\* make_table, one turn of the outer loop over the first code: [cands, pos1]
pos1_turn(c, t, end, sample_frac, cfrac, st) ==
  LET r == get_single_and_forward(c, st.pos1)
      s1 == get_symbol(t, r.pos)
      heuristic_cnt == IF length(s1) = 1 THEN SINGLE_WEIGHT * r.cnt ELSE r.cnt
      cands1 == expand_candidate(st.cands, s1, heuristic_cnt, sample_frac, cfrac)
      cands2 == IF length(s1) = MAX_LEN \/ sample_frac >= LAST_FRAC THEN cands1
                ELSE While(LAMBDA x : pos2_turn(c, t, r.pos, sample_frac, cfrac, x),
                           LAMBDA x : x.pos2 >= end,
                           [cands |-> cands1, pos2 |-> 0]).cands
  IN [cands |-> IF r.cnt = 0 THEN st.cands ELSE cands2, pos1 |-> r.pos + 1]

\* make_table up to the sort: the candidates with their accumulated gains
make_candidates(c, t, sample_frac, cfrac) ==
  While(LAMBDA x : pos1_turn(c, t, CODE_BASE + t.symbol_num, sample_frac, cfrac, x),
        LAMBDA x : x.pos1 >= CODE_BASE + t.symbol_num,
        [cands |-> EmptyMap, pos1 |-> 0]).cands

\* the comparator of sort_by: a sorts before b
SortsBefore(cands, a, b) ==
  IF cands[a] = cands[b] THEN NumLess(b[1], a[1]) ELSE cands[a] < cands[b]

\* pop with the ties the other way round: the greatest value of the top gain
PopLargest(cands) ==
  LET best == CHOOSE a \in DOMAIN cands : \A b \in DOMAIN cands : cands[b] <= cands[a]
      top == {a \in DOMAIN cands : cands[a] = cands[best]}
      most == CHOOSE a \in top : \A b \in top : ~NumLess(a[1], b[1])
  IN {a \in top : a[1] = most[1]}

\* the keys sorted_vec.pop() can return: the last of the sorted vector.  Keys the
\* comparator calls equal keep the order the HashMap iterated them in, which is any.
PopChoices(cands) ==
  LET best == CHOOSE a \in DOMAIN cands : \A b \in DOMAIN cands : cands[b] <= cands[a]
      top == {a \in DOMAIN cands : cands[a] = cands[best]}
      least == CHOOSE a \in top : \A b \in top : ~NumLess(b[1], a[1])
  IN {a \in top : a[1] = least[1]}

\* take_sample: the sample of a collection no larger than SAMPLE_TARGET bytes
RECURSIVE SumLen(_, _)
SumLen(strs, i) == IF i = 0 THEN 0 ELSE SumLen(strs, i - 1) + Len(strs[i])

RECURSIVE SamplePass(_, _, _, _, _)
\* one pass of the for loop from string i (from 1): every string is pushed
\* ((sample_rand & 255) = 1 < sample_prob) until the sample reaches its target
SamplePass(strs, i, sample, sample_size, sample_target) ==
  IF i > Len(strs) THEN [sample |-> sample, size |-> sample_size]
  ELSE LET size1 == sample_size + Len(strs[i])
           sample1 == Append(sample, strs[i])
       IN IF size1 >= sample_target THEN [sample |-> sample1, size |-> size1]
          ELSE SamplePass(strs, i + 1, sample1, size1, sample_target)

RECURSIVE SampleLoop(_, _, _, _)
SampleLoop(strs, sample, sample_size, sample_target) ==
  IF sample_size >= sample_target THEN sample
  ELSE LET r == SamplePass(strs, 1, sample, sample_size, sample_target)
       IN SampleLoop(strs, r.sample, r.size, sample_target)

\* take_sample: [panic, sample]; sample_target / total_size divides by zero when
\* the collection holds no byte
take_sample(strs) ==
  LET total_size == SumLen(strs, Len(strs))
      sample_target == IF total_size > SAMPLE_TARGET THEN SAMPLE_TARGET ELSE total_size
  IN IF total_size = 0 THEN [panic |-> TRUE, sample |-> << >>]
     ELSE [panic |-> FALSE, sample |-> SampleLoop(strs, << >>, 0, sample_target)]

(***************************************************************************)
(* Encoder and Decoder (src/src/core/codec.rs).                            *)
(***************************************************************************)
\* str::is_char_boundary(i) for 0 <= i < len: the byte at i is no UTF-8 continuation byte
is_char_boundary(str, i) == i = 0 \/ str[i + 1] < 128 \/ str[i + 1] >= 192

\* one iteration of the loop of encode_str:
\* [panic, pos_in, pos_out, buf]; &str[pos_in..] panics off a char boundary
encode_step(t, str, pos_in, pos_out, buf) ==
  LET target == from_str_bytes(Little, SubSeq(str, pos_in + 1, Len(str)))
      buf1 == [buf EXCEPT ![pos_out + 2] = first(target)]
      r == encode_for(t, target)
  IN IF ~is_char_boundary(str, pos_in) \/ pos_out + 1 >= Len(buf)
       THEN [panic |-> TRUE, pos_in |-> pos_in, pos_out |-> pos_out, buf |-> buf]
       ELSE [panic |-> FALSE, pos_in |-> pos_in + r.s_len, pos_out |-> pos_out + r.out_len,
             buf |-> [buf1 EXCEPT ![pos_out + 1] = r.code]]

\* encode_str: [panic, out]
encode_str(t, str) ==
  LET st == While(LAMBDA x : encode_step(t, str, x.pos_in, x.pos_out, x.buf),
                  LAMBDA x : x.panic \/ x.pos_in >= Len(str),
                  [panic |-> FALSE, pos_in |-> 0, pos_out |-> 0,
                   buf |-> [i \in 1..(2 * Len(str)) |-> 0]])
  IN [panic |-> st.panic, out |-> IF st.panic THEN << >> ELSE SubSeq(st.buf, 1, st.pos_out)]

\* Decoder::from_table: the entries below table.len(), the others stay zero
from_table(t) ==
  [symbols |-> [i \in 0..(t.symbol_num - 1) |-> get_symbol(t, i).num],
   lens |-> [i \in 0..(t.symbol_num - 1) |-> length(get_symbol(t, i))]]

\* self.symbols[code], self.lens[code] of a Decoder
DecSymbol(d, code) == IF code \in DOMAIN d.symbols THEN d.symbols[code] ELSE ZeroNum

DecLen(d, code) == Get0(d.lens, code)

\* the assembly of one symbol with the two branches exchanged
ReadNumExchanged(native, encode_endian, buf, pos, len) ==
  IF native = encode_endian
    THEN [j \in 1..U64_SIZE |-> IF j <= len THEN buf[pos + len - j + 1] ELSE 0]
    ELSE [j \in 1..U64_SIZE |-> IF j <= len THEN buf[pos + j] ELSE 0]

\* from_table_bytes, the assembly of one symbol of `len` bytes at pos (from 0)
ReadNum(native, encode_endian, buf, pos, len) ==
  IF native # encode_endian
    THEN [j \in 1..U64_SIZE |-> IF j <= len THEN buf[pos + len - j + 1] ELSE 0]
    ELSE [j \in 1..U64_SIZE |-> IF j <= len THEN buf[pos + j] ELSE 0]

\* from_table_bytes, one turn of the two loops, on [panic, pos, code, decoder, len, left]:
\* `left` symbols of length len are still to read
read_turn(native, buf, st) ==
  IF st.left = 0
    THEN [st EXCEPT !.len = @ + 1, !.left = IF st.len < MAX_LEN THEN buf[st.len + 2] ELSE 0]
  \* buf.get(pos + i).unwrap() past the end, symbols[code] past the array
  ELSE IF st.pos + st.len > Len(buf) \/ st.code >= CODE_ESCAPE
    THEN [st EXCEPT !.panic = TRUE]
  ELSE [st EXCEPT !.left = @ - 1, !.pos = @ + st.len, !.code = @ + 1,
                  !.decoder = [symbols |-> Put(@.symbols, st.code,
                                               ReadNum(native, buf[1], buf, st.pos, st.len)),
                               lens |-> Put(@.lens, st.code, st.len)]]

\* Decoder::from_table_bytes on a machine of byte order native: [panic, pos, decoder]
from_table_bytes(native, buf) ==
  LET none == [symbols |-> EmptyMap, lens |-> EmptyMap]
      st == While(LAMBDA x : read_turn(native, buf, x),
                  LAMBDA x : x.panic \/ x.len > MAX_LEN,
                  [panic |-> FALSE, pos |-> 9, code |-> 0, decoder |-> none,
                   len |-> 1, left |-> buf[2]])
  IN IF Len(buf) < 9 \/ buf[1] \notin {Little, Big}
       THEN [panic |-> TRUE, pos |-> 0, decoder |-> none]
       ELSE [panic |-> st.panic, pos |-> st.pos, decoder |-> st.decoder]

\* unaligned_store: 8 bytes of symbols[code] go to out[pos_out..pos_out + 8]; a store
\* that leaves the buffer is undefined behaviour (ub)
unaligned_store(native, d, st, str_in) ==
  LET code == str_in[st.pos_in + 1]
      bytes == U64ToBytes(native, DecSymbol(d, code))
  IN IF code >= CODE_ESCAPE THEN [st EXCEPT !.panic = TRUE]
     ELSE [st EXCEPT !.ub = @ \/ st.pos_out + U64_SIZE > Len(st.out),
                     !.out = [i \in 1..Len(st.out) |->
                                IF i > st.pos_out /\ i <= st.pos_out + U64_SIZE
                                  THEN bytes[i - st.pos_out] ELSE st.out[i]],
                     !.pos_in = @ + 1,
                     !.pos_out = @ + DecLen(d, code)]

\* the store of an escaped byte that copies str_buf[pos_in], the escape code itself
store_literal_escape(st, str_in) ==
  IF st.pos_in + 1 >= Len(str_in) \/ st.pos_out >= Len(st.out)
    THEN [st EXCEPT !.panic = TRUE]
    ELSE [st EXCEPT !.out[st.pos_out + 1] = str_in[st.pos_in + 1],
                    !.pos_in = @ + 2,
                    !.pos_out = @ + 1]

\* decode_buf[pos_out] = str_buf[pos_in + 1]; pos_in += 2; pos_out += 1
store_literal(st, str_in) ==
  IF st.pos_in + 1 >= Len(str_in) \/ st.pos_out >= Len(st.out)
    THEN [st EXCEPT !.panic = TRUE]
    ELSE [st EXCEPT !.out[st.pos_out + 1] = str_in[st.pos_in + 2],
                    !.pos_in = @ + 2,
                    !.pos_out = @ + 1]

\* n calls of unaligned_store in a row, n at most 4
StoreN(native, d, st, str_in, n) ==
  Repeat(LAMBDA x : [st |-> unaligned_store(native, d, x.st, str_in), n |-> x.n - 1],
         LAMBDA x : x.n = 0 \/ x.st.panic, [st |-> st, n |-> n], 4).st

\* one lane of escape_mask: (w & 0x80) & (((!w & 0x7F) + 0x7F) ^ 0x80); no lane carries
EscapeLane(w) ==
  BitOp("and", BitOp("and", w, 128, 8),
        BitOp("xor", BitOp("and", 255 - w, 127, 8) + 127, 128, 8), 8)

\* bulk_load_u32 and the mask: the four lanes, least significant first
EscapeMask(native, bytes4) ==
  LET w == IF native = Little THEN bytes4 ELSE [i \in 1..4 |-> bytes4[5 - i]]
  IN [i \in 1..4 |-> EscapeLane(w[i])]

\* decode, one turn of the first loop: four codes looked at together
fast_turn(native, d, str_buf, st) ==
  LET mask == EscapeMask(native, SubSeq(str_buf, st.pos_in + 1, st.pos_in + 4))
      \* escape_mask.trailing_zeros() >> 3
      first_escape_pos == FirstNonZero(mask, 0)
      st1 == StoreN(native, d, st, str_buf, first_escape_pos)
  IN IF first_escape_pos = 4 THEN StoreN(native, d, st, str_buf, 4)
     ELSE IF st1.panic THEN st1
     ELSE store_literal(st1, str_buf)

\* decode, one turn of the second loop: one code or one escaped byte
tail_turn(native, d, str_buf, st) ==
  IF str_buf[st.pos_in + 1] # CODE_ESCAPE
    THEN unaligned_store(native, d, st, str_buf)
    ELSE store_literal(st, str_buf)

\* the condition of the first loop of decode
in_fast_loop(pos_in, str_buf) == pos_in + 4 < Len(str_buf)

DecodeFast(native, d, st, str_buf) ==
  While(LAMBDA x : fast_turn(native, d, str_buf, x),
        LAMBDA x : x.panic \/ ~in_fast_loop(x.pos_in, str_buf), st)

DecodeTail(native, d, st, str_buf) ==
  While(LAMBDA x : tail_turn(native, d, str_buf, x),
        LAMBDA x : x.panic \/ x.pos_in >= Len(str_buf), st)

\* decode with a buffer one byte short of str_buf.len() * MAX_LEN
decode_start_short(str_buf) ==
  [panic |-> FALSE, ub |-> FALSE, pos_in |-> 0, pos_out |-> 0,
   out |-> [i \in 1..(Len(str_buf) * MAX_LEN - 1) |-> 0]]

\* decode begins: pos_in = pos_out = 0, decode_buf = vec![0u8; str_buf.len() * MAX_LEN]
decode_start(str_buf) ==
  [panic |-> FALSE, ub |-> FALSE, pos_in |-> 0, pos_out |-> 0,
   out |-> [i \in 1..(Len(str_buf) * MAX_LEN) |-> 0]]

\* Decoder::decode on a machine of byte order native: [panic, ub, out]
decode(native, d, str_buf) ==
  LET st == DecodeTail(native, d, DecodeFast(native, d, decode_start(str_buf), str_buf),
                       str_buf)
  IN [panic |-> st.panic, ub |-> st.ub,
      out |-> IF st.panic THEN << >> ELSE SubSeq(st.out, 1, Min(st.pos_out, Len(st.out)))]

\* the UTF-8 encoding of U+FFFD
REPLACEMENT == <<239, 191, 189>>

IsCont(b) == b >= 128 /\ b <= 191

\* number of bytes of the sequence a lead byte opens, 0 for a byte that opens none
Utf8Width(b) ==
  IF b < 128 THEN 1
  ELSE IF b >= 194 /\ b <= 223 THEN 2
  ELSE IF b >= 224 /\ b <= 239 THEN 3
  ELSE IF b >= 240 /\ b <= 244 THEN 4
  ELSE 0

\* the second byte a lead byte admits
SecondOk(lead, b) ==
  CASE lead = 224 -> b >= 160 /\ b <= 191
    [] lead = 237 -> b >= 128 /\ b <= 159
    [] lead = 240 -> b >= 144 /\ b <= 191
    [] lead = 244 -> b >= 128 /\ b <= 143
    [] OTHER -> IsCont(b)

RECURSIVE ValidPrefix(_, _, _, _)
\* how many bytes of the sequence opened at i (from 1) are well formed, up to width w
ValidPrefix(bytes, i, k, w) ==
  IF k = w \/ i + k > Len(bytes) THEN k
  ELSE IF (k = 1 /\ SecondOk(bytes[i], bytes[i + k])) \/ (k > 1 /\ IsCont(bytes[i + k]))
    THEN ValidPrefix(bytes, i, k + 1, w)
  ELSE k

RECURSIVE Utf8Lossy(_, _)
\* String::from_utf8_lossy from byte i (from 1) on: a malformed sequence becomes U+FFFD
Utf8Lossy(bytes, i) ==
  IF i > Len(bytes) THEN << >>
  ELSE LET w == Utf8Width(bytes[i])
           k == IF w = 0 THEN 1 ELSE ValidPrefix(bytes, i, 1, w)
       IN IF w # 0 /\ k = w THEN SubSeq(bytes, i, i + w - 1) \o Utf8Lossy(bytes, i + w)
          ELSE REPLACEMENT \o Utf8Lossy(bytes, i + k)

\* String::push(b as char): the UTF-8 encoding of U+0000..U+00FF
CharBytes(b) == IF b < 128 THEN <<b>> ELSE <<192 + (b \div 64), 128 + (b % 64)>>

\* decode_with_tab, one turn of the loop on [panic, pos, out]
safe_turn(t, buf, st) ==
  LET b == buf[st.pos + 1]
  IN IF b # 255
       THEN [st EXCEPT !.pos = @ + 1,
                       !.out = @ \o Utf8Lossy(symbol_bytes(Little, get_symbol(t, b)), 1)]
     \* buf.get(pos).unwrap() past the end
     ELSE IF st.pos + 1 >= Len(buf) THEN [st EXCEPT !.panic = TRUE]
     ELSE [st EXCEPT !.pos = @ + 2, !.out = @ \o CharBytes(buf[st.pos + 2])]

\* Decoder::decode_with_tab: [panic, out]
decode_with_tab(t, buf) ==
  LET st == While(LAMBDA x : safe_turn(t, buf, x),
                  LAMBDA x : x.panic \/ x.pos >= Len(buf),
                  [panic |-> FALSE, pos |-> 0, out |-> << >>])
  IN [panic |-> st.panic, out |-> IF st.panic THEN << >> ELSE st.out]

(***************************************************************************)
(* The callers of src/src/lib.rs: a table is built from a string or from a *)
(* collection, then strings are encoded and decoded with it.               *)
(***************************************************************************)
\* the characters strings are made of: U+0000, 'a' and U+00E9 (two bytes in UTF-8)
Chars == {<<0>>, <<97>>, <<195, 169>>}

RECURSIVE StrsUpTo(_)
\* the strings over Chars of at most n bytes
StrsUpTo(n) ==
  IF n = 0 THEN {<< >>}
  ELSE LET prev == StrsUpTo(n - 1)
       IN prev \cup {x \in {s \o c : s \in prev, c \in Chars} : Len(x) <= n}

Strs == StrsUpTo(MaxLen)

\* a string of LongLen bytes that holds every ASCII byte
LongStr == [i \in 1..LongLen |-> (i - 1) % 128]

\* "tumcwitumvldb", the string of examples/single_str.rs
ExampleStr == <<116, 117, 109, 99, 119, 105, 116, 117, 109, 118, 108, 100, 98>>

\* the collections handed to build_table_by_sampling and encode_all_strings
Collections == UNION {[1..n -> StrsUpTo(MaxSampleLen)] : n \in 0..MaxStrings}

\* "aaa\0\0" and "\0\0\0aa"
EscTargets == {<<97, 97, 97, 0, 0>>, <<0, 0, 0, 97, 97>>}

NoAdd == [s |-> free, gain |-> 0, ok |-> FALSE, panic |-> FALSE]

NoEnc == [str |-> << >>, pos_in |-> 0, pos_out |-> 0, buf |-> << >>]

NoTally == [single |-> EmptyMap, concat |-> EmptyMap]

\* no call yet.  Of a call: op is "single" or "concat", pos1 the first code of a pair,
\* start the position handed in, pos the position left, cnt the count returned; first
\* is where the caller's loop `call; pos += 1` began and seen the positions at which
\* it got a count above zero
NoGet ==
  [op |-> "", pos1 |-> 0, first |-> 0, start |-> 0, pos |-> 0, cnt |-> 0, seen |-> << >>]

NoFind == [str |-> << >>, code |-> 0]

NoConcat == [a |-> free, b |-> free, s |-> free, panic |-> FALSE]

NoLoad == [panic |-> FALSE, pos |-> 0, decoder |-> [symbols |-> EmptyMap, lens |-> EmptyMap]]

VARIABLES
  pc,            \* where the caller stands
  api,           \* "build_from" or "build_from_samples": how the table is built
  strings,       \* the caller's strings
  samples,       \* the sample build() works on
  count_frac,    \* SymbolTableBuilder.count_frac
  counter,       \* SymbolTableBuilder.counter
  symbol_table,  \* build()'s symbol_table
  best_table,    \* build()'s best_table, the table build() returns
  best_gain,     \* build()'s best_gain: << >> for i64::MIN, <<g>> for g
  best_single,   \* build()'s best_single
  rounds,        \* build()'s finished counting rounds: sample_frac, gain, table, single counts
  sample_frac,   \* build()'s sample_frac
  sorted_vec,    \* make_table()'s sorted_vec: the candidates not popped yet, with their gains
  last_add,      \* the last call of add: its argument, its gain as a candidate, what it returned
  enc,           \* encode_str()'s str, pos_in, pos_out, buf
  encoding,      \* what encode() returned
  decoded,       \* what Decoder::decode returned
  decoded_safe,  \* what Decoder::decode_with_tab returned
  native,        \* the byte order of the machine that reads the dumped table
  loaded,        \* what from_table_bytes returned
  encodings,     \* what encode_all_strings returned
  decodings,     \* what decode_all_strings returned
  decoding,      \* decode()'s panic, ub, pos_in, pos_out and decode_buf (out)
  panicked,      \* the call that panicked, "" while none has
  calls,         \* how many calls a caller of the table or of the counter made itself
  tally,         \* the calls of inc_single and inc_concat since the last reset, by code
  last_get,      \* the last call of get_single_and_forward or get_concat_and_forward
  last_find,     \* the last call of find_longest_symbol_code: its argument and its result
  last_concat    \* the last a + b of two symbols: its operands and its result

vars ==
  <<pc, api, strings, samples, count_frac, counter, symbol_table,
    best_table, best_gain, best_single, rounds, sample_frac, sorted_vec, last_add, enc,
    encoding, decoded, decoded_safe, native, loaded, encodings, decodings, decoding,
    panicked, calls, tally, last_get, last_find, last_concat>>

builderVars ==
  <<count_frac, counter, symbol_table, best_table, best_gain, best_single, rounds,
    sample_frac, sorted_vec, last_add>>

codecVars ==
  <<enc, encoding, decoded, decoded_safe, native, loaded, encodings, decodings, decoding>>

inputVars == <<api, strings, samples, calls>>

callerVars == <<tally, last_get, last_find, last_concat>>

\* the state before the caller's first call
InitRest ==
  /\ calls = 0
  /\ tally = NoTally
  /\ last_get = NoGet
  /\ last_find = NoFind
  /\ last_concat = NoConcat
  /\ samples = << >>
  /\ counter = counter_new
  /\ symbol_table = table_new
  /\ best_table = table_new
  /\ best_gain = << >>
  /\ best_single = backup_single(counter_new)
  /\ rounds = << >>
  /\ sample_frac = FIRST_FRAC
  /\ sorted_vec = EmptyMap
  /\ last_add = NoAdd
  /\ enc = NoEnc
  /\ encoding = << >>
  /\ decoded = << >>
  /\ decoded_safe = << >>
  /\ native = Little
  /\ loaded = NoLoad
  /\ encodings = << >>
  /\ decodings = << >>
  /\ decoding = decode_start(<< >>)
  /\ panicked = ""

Init ==
  /\ \/ /\ api = "build_from"
        /\ count_frac = 0
        /\ strings \in {<<s>> : s \in Strs \cup {LongStr, ExampleStr}}
     \/ /\ api = "build_from_samples"
        /\ count_frac = MULTI_COUNT_FRAC
        /\ strings \in Collections
  /\ pc = "start"
  /\ InitRest

\* build_from: the sample is the string; build_table_by_sampling: take_sample, then
\* build_from_samples.  build() starts with a new table, its clone and sample_frac 8.
Build ==
  /\ pc = "start"
  /\ LET r == IF api = "build_from" THEN [panic |-> FALSE, sample |-> strings]
              ELSE take_sample(strings)
     IN /\ samples' = r.sample
        /\ pc' = IF r.panic THEN "panicked" ELSE "compute_freq"
        /\ panicked' = IF r.panic THEN "take_sample" ELSE panicked
  /\ UNCHANGED <<callerVars, api, strings, calls, builderVars, codecVars>>

\* the snapshot with >= for >: a round that equals the best gain replaces it
keep_best_or_equal(r) ==
  /\ counter' = r.counter
  /\ IF best_gain = << >> \/ r.gain >= best_gain[1]
       THEN /\ best_gain' = <<r.gain>>
            /\ best_single' = backup_single(r.counter)
            /\ best_table' = symbol_table
       ELSE UNCHANGED <<best_gain, best_single, best_table>>

\* build, after compute_freq: the counter holds the new counts, and a gain above
\* the best so far records the table and its single counts
keep_best(r) ==
  /\ counter' = r.counter
  /\ IF best_gain = << >> \/ r.gain > best_gain[1]
       THEN /\ best_gain' = <<r.gain>>
            /\ best_single' = backup_single(r.counter)
            /\ best_table' = symbol_table
       ELSE UNCHANGED <<best_gain, best_single, best_table>>

\* build(), one counting round: what compute_freq returned and counted joins the
\* rounds, and the best round is kept
end_round(r) ==
  /\ keep_best(r)
  /\ rounds' = Append(rounds, [sample_frac |-> sample_frac, gain |-> r.gain,
                               table |-> symbol_table, single |-> backup_single(r.counter)])

\* build(), the head of the loop: compute_freq and the snapshot of the best round
ComputeFreq ==
  /\ pc = "compute_freq"
  /\ end_round(compute_freq(counter, symbol_table, samples, sample_frac))
  /\ pc' = IF sample_frac >= LAST_FRAC THEN "restore" ELSE "make_table"
  /\ UNCHANGED <<callerVars, inputVars, codecVars, count_frac, symbol_table, sample_frac,
                 sorted_vec, last_add, panicked>>

\* the table make_table works on: best_table in the call after the loop
BuildTable(final) == IF final THEN best_table ELSE symbol_table

SetBuildTable(final, t) ==
  /\ symbol_table' = IF final THEN symbol_table ELSE t
  /\ best_table' = IF final THEN t ELSE best_table

\* make_table up to symbol_table.clear(): the candidates, then the cleared table
MakeTable(final) ==
  /\ pc = IF final THEN "final_make_table" ELSE "make_table"
  /\ sorted_vec' = make_candidates(counter, BuildTable(final), sample_frac, count_frac)
  /\ SetBuildTable(final, table_clear(BuildTable(final)))
  /\ pc' = IF final THEN "final_add" ELSE "add"
  /\ UNCHANGED <<callerVars, inputVars, codecVars, count_frac, counter, best_gain, best_single, rounds,
                 sample_frac, last_add, panicked>>

\* the condition of the while loop with <= for <
more_to_add_inclusive(t, pq) == t.symbol_num <= TABLE_CAP /\ pq # EmptyMap

\* make_table, the condition of the while loop: symbol_table.len() < 255 and
\* candidates left
more_to_add(t, pq) == t.symbol_num < TABLE_CAP /\ pq # EmptyMap

\* make_table, one turn of the while loop: pop a candidate and add it
AddCandidate(final) ==
  /\ pc = IF final THEN "final_add" ELSE "add"
  /\ more_to_add(BuildTable(final), sorted_vec)
  /\ \E k \in PopChoices(sorted_vec), overflow_checks \in BOOLEAN :
       LET s == from_str_num(k[1], k[2])
           r == table_add(BuildTable(final), s, overflow_checks)
       IN /\ sorted_vec' = [x \in (DOMAIN sorted_vec) \ {k} |-> sorted_vec[x]]
          /\ last_add' = [s |-> s, gain |-> sorted_vec[k], ok |-> r.ok, panic |-> r.panic]
          /\ SetBuildTable(final, r.table)
          /\ pc' = IF r.panic THEN "panicked" ELSE pc
          /\ panicked' = IF r.panic THEN "add" ELSE panicked
  /\ UNCHANGED <<callerVars, inputVars, codecVars, count_frac, counter, best_gain, best_single, rounds,
                 sample_frac>>

\* the while loop of make_table ends; in the loop of build(): counter.reset() and
\* sample_frac += 30; after it: finalize comes next
EndMakeTable(final) ==
  /\ pc = IF final THEN "final_add" ELSE "add"
  /\ ~more_to_add(BuildTable(final), sorted_vec)
  /\ sorted_vec' = EmptyMap
  /\ counter' = IF final THEN counter ELSE counter_new
  /\ sample_frac' = IF final THEN sample_frac ELSE sample_frac + FRAC_STEP
  /\ pc' = IF final THEN "finalize" ELSE "compute_freq"
  /\ UNCHANGED <<callerVars, inputVars, codecVars, count_frac, symbol_table, best_table, best_gain,
                 best_single, rounds, last_add, panicked>>

\* build() after the loop: counter.restore_single(best_single)
RestoreSingle ==
  /\ pc = "restore"
  /\ counter' = restore_single(counter, best_single)
  /\ pc' = "final_make_table"
  /\ UNCHANGED <<callerVars, inputVars, codecVars, count_frac, symbol_table, best_table, best_gain,
                 best_single, rounds, sample_frac, sorted_vec, last_add, panicked>>

\* best_table.finalize(); build() returns best_table
Finalize ==
  /\ pc = "finalize"
  /\ best_table' = table_finalize(best_table)
  /\ pc' = "built"
  /\ UNCHANGED <<callerVars, inputVars, codecVars, count_frac, counter, symbol_table, best_gain,
                 best_single, rounds, sample_frac, sorted_vec, last_add, panicked>>

\* the strings the caller encodes with the table: its own, the short ones, and two
\* that keep a symbol of the table next to bytes the table may not hold
Targets ==
  StrsUpTo(MaxTargetLen) \cup {strings[i] : i \in DOMAIN strings} \cup EscTargets

\* Encoder::encode_str begins: buf = vec![0; str.len() << 1]
EncodeStart ==
  /\ pc = "built"
  /\ \E s \in Targets :
       enc' = [str |-> s, pos_in |-> 0, pos_out |-> 0, buf |-> [i \in 1..(2 * Len(s)) |-> 0]]
  /\ pc' = "encoding"
  /\ UNCHANGED <<callerVars, inputVars, builderVars, encoding, decoded, decoded_safe, native, loaded,
                 encodings, decodings, panicked, decoding>>

\* one turn of the while loop of encode_str
EncodeStep ==
  /\ pc = "encoding"
  /\ enc.pos_in < Len(enc.str)
  /\ LET r == encode_step(best_table, enc.str, enc.pos_in, enc.pos_out, enc.buf)
     IN /\ enc' = [enc EXCEPT !.pos_in = r.pos_in, !.pos_out = r.pos_out, !.buf = r.buf]
        /\ pc' = IF r.panic THEN "panicked" ELSE pc
        /\ panicked' = IF r.panic THEN "encode_str" ELSE panicked
  /\ UNCHANGED <<callerVars, inputVars, builderVars, encoding, decoded, decoded_safe, native, loaded,
                 encodings, decodings, decoding>>

\* encode_str returns the truncated buf; encode(str, include_table) puts the dumped
\* table before it when include_table is set
EncodeEnd ==
  /\ pc = "encoding"
  /\ enc.pos_in >= Len(enc.str)
  /\ \E include_table \in BOOLEAN :
       /\ encoding' = IF include_table
                        THEN table_dump(Little, best_table) \o SubSeq(enc.buf, 1, enc.pos_out)
                        ELSE SubSeq(enc.buf, 1, enc.pos_out)
       /\ pc' = IF include_table THEN "encoded_with_table" ELSE "encoded"
  /\ UNCHANGED <<callerVars, inputVars, builderVars, enc, decoded, decoded_safe, native, loaded,
                 encodings, decodings, panicked, decoding>>

\* what decode returns: the decoded string, or the panic that ends the program
decode_returns(r, done) ==
  /\ decoded' = r.out
  /\ pc' = IF r.panic THEN "panicked" ELSE done
  /\ panicked' = IF r.panic THEN "decode" ELSE panicked

\* decode_string: Decoder::from_table(table).decode(encoding)
Decode ==
  /\ pc = "encoded"
  /\ decode_returns(decode(Little, from_table(best_table), encoding), "decoded")
  /\ UNCHANGED <<callerVars, inputVars, builderVars, enc, encoding, decoded_safe, native, loaded,
                 encodings, decodings, decoding>>

\* Decoder::decode_with_tab(table, encoding)
DecodeWithTab ==
  /\ pc = "decoded"
  /\ LET r == decode_with_tab(best_table, encoding)
     IN /\ decoded_safe' = r.out
        /\ pc' = IF r.panic THEN "panicked" ELSE "decoded_safe"
        /\ panicked' = IF r.panic THEN "decode_with_tab" ELSE panicked
  /\ UNCHANGED <<callerVars, inputVars, builderVars, enc, encoding, decoded, native, loaded,
                 encodings, decodings, decoding>>

\* Decoder::from_table_bytes(encoding) on a machine of either byte order
FromTableBytes ==
  /\ pc = "encoded_with_table"
  /\ \E n \in {Little, Big} :
       LET r == from_table_bytes(n, encoding)
       IN /\ native' = n
          /\ loaded' = r
          /\ pc' = IF r.panic THEN "panicked" ELSE "loaded"
          /\ panicked' = IF r.panic THEN "from_table_bytes" ELSE panicked
  /\ UNCHANGED <<callerVars, inputVars, builderVars, enc, encoding, decoded, decoded_safe,
                 encodings, decodings, decoding>>

\* decoder.decode(&encoding[table_end_pos..]) on the machine that read the table
DecodeLoaded ==
  /\ pc = "loaded"
  /\ decode_returns(decode(native, loaded.decoder,
                           SubSeq(encoding, loaded.pos + 1, Len(encoding))),
                    "decoded_loaded")
  /\ UNCHANGED <<callerVars, inputVars, builderVars, enc, encoding, decoded_safe, native, loaded,
                 encodings, decodings, decoding>>

\* the Vec the for loop fills by push, unless one of the calls panics
push_all(r) ==
  IF \E i \in DOMAIN r : r[i].panic THEN [panic |-> TRUE, out |-> << >>]
  ELSE [panic |-> FALSE, out |-> [i \in DOMAIN r |-> r[i].out]]

encode_all_returns(r) ==
  /\ encodings' = r.out
  /\ pc' = IF r.panic THEN "panicked" ELSE "encoded_all"
  /\ panicked' = IF r.panic THEN "encode_all_strings" ELSE panicked

decode_all_returns(r) ==
  /\ decodings' = r.out
  /\ pc' = IF r.panic THEN "panicked" ELSE "decoded_all"
  /\ panicked' = IF r.panic THEN "decode_all_strings" ELSE panicked

\* encode_all_strings after build_table_by_sampling: encode_str of every string
EncodeAll ==
  /\ pc = "built"
  /\ api = "build_from_samples"
  /\ encode_all_returns(push_all([i \in DOMAIN strings |-> encode_str(best_table, strings[i])]))
  /\ UNCHANGED <<callerVars, inputVars, builderVars, enc, encoding, decoded, decoded_safe, native,
                 loaded, decodings, decoding>>

\* decode_all_strings(table, encodings)
DecodeAll ==
  /\ pc = "encoded_all"
  /\ decode_all_returns(push_all([i \in DOMAIN encodings |->
                                   decode(Little, from_table(best_table), encodings[i])]))
  /\ UNCHANGED <<callerVars, inputVars, builderVars, enc, encoding, decoded, decoded_safe, native,
                 loaded, encodings, decoding>>

Next ==
  \/ Build
  \/ ComputeFreq
  \/ \E final \in BOOLEAN : MakeTable(final)
  \/ \E final \in BOOLEAN : AddCandidate(final)
  \/ \E final \in BOOLEAN : EndMakeTable(final)
  \/ RestoreSingle
  \/ Finalize
  \/ EncodeStart
  \/ EncodeStep
  \/ EncodeEnd
  \/ Decode
  \/ DecodeWithTab
  \/ FromTableBytes
  \/ DecodeLoaded
  \/ EncodeAll
  \/ DecodeAll

Spec == Init /\ [][Next]_vars

(***************************************************************************)
(* A caller of the SymbolTable trait itself: it takes a new table and adds *)
(* symbols of its own, one call of add after the other.                    *)
(***************************************************************************)
\* the symbols a caller adds: FillLen1 one-byte symbols, two-byte symbols up to the
\* capacity, a symbol of `last` bytes, and one more
AddScript(last) ==
  [i \in 1..(TABLE_CAP + 2) |->
     IF i <= TABLE_CAP
       THEN IF i <= FillLen1 THEN <<i - 1>> ELSE <<i - 1, 1>>
     ELSE IF i = TABLE_CAP + 1 THEN [j \in 1..last |-> IF j = 1 THEN 255 ELSE j]
     ELSE <<254, 2>>]

\* the same with one-byte symbols only up to the capacity
AddScriptLen1 == [i \in 1..(TABLE_CAP + 2) |-> <<i - 1>>]

InitTable ==
  /\ api = "add"
  /\ count_frac = 0
  /\ strings \in {AddScript(last) : last \in 1..MAX_LEN} \cup {AddScriptLen1}
  /\ pc = "table"
  /\ InitRest

\* symbol_table.add(Symbol::from_str_bytes(...)) with the next symbol of the script
AddSymbol ==
  /\ pc = "table"
  /\ calls < Len(strings)
  /\ \E overflow_checks \in BOOLEAN :
       LET s == from_str_bytes(Little, strings[calls + 1])
           r == table_add(symbol_table, s, overflow_checks)
       IN /\ symbol_table' = r.table
          /\ last_add' = [s |-> s, gain |-> 0, ok |-> r.ok, panic |-> r.panic]
          /\ pc' = IF r.panic THEN "panicked" ELSE pc
          /\ panicked' = IF r.panic THEN "add" ELSE panicked
  /\ calls' = calls + 1
  /\ UNCHANGED <<callerVars, api, strings, samples, codecVars, count_frac, counter,
                 best_table, best_gain, best_single, rounds, sample_frac, sorted_vec>>

NextTable == AddSymbol

SpecTable == InitTable /\ [][NextTable]_vars

(***************************************************************************)
(* A caller of the Decoder itself: it reads a dumped table and decodes     *)
(* bytes of its own, whatever they are; decode goes one loop turn at a     *)
(* time.                                                                   *)
(***************************************************************************)
\* dumped tables: two symbols of eight bytes; one symbol of one byte
DecoderTables ==
  {<<Little, 0, 0, 0, 0, 0, 0, 0, 2, 97, 98, 99, 100, 101, 102, 103, 104,
     49, 50, 51, 52, 53, 54, 55, 56>>,
   <<Little, 1, 0, 0, 0, 0, 0, 0, 0, 97>>}

\* the bytes of a stream: the codes 0 and 1 and the escape code
StreamBytes == {0, 1, CODE_ESCAPE}

ByteStreams == UNION {[1..n -> StreamBytes] : n \in 0..MaxStreamLen}

InitDecoder ==
  /\ api = "decode"
  /\ count_frac = 0
  /\ strings = << >>
  /\ pc = "decoder"
  /\ InitRest

\* Decoder::from_table_bytes(table bytes)
LoadDecoder ==
  /\ pc = "decoder"
  /\ \E buf \in DecoderTables : loaded' = from_table_bytes(native, buf)
  /\ pc' = "loaded_decoder"
  /\ UNCHANGED <<callerVars, inputVars, builderVars, enc, encoding, decoded, decoded_safe, native,
                 encodings, decodings, decoding, panicked>>

\* decoder.decode(str_buf) begins
DecodeStart ==
  /\ pc = "loaded_decoder"
  /\ \E str_buf \in ByteStreams :
       /\ encoding' = str_buf
       /\ decoding' = decode_start(str_buf)
  /\ pc' = "decoding"
  /\ UNCHANGED <<callerVars, inputVars, builderVars, enc, decoded, decoded_safe, native, loaded,
                 encodings, decodings, panicked>>

\* what a loop turn of decode leaves: its state, or the panic that ends the program
turn_returns(st) ==
  /\ decoding' = st
  /\ pc' = IF st.panic THEN "panicked" ELSE pc
  /\ panicked' = IF st.panic THEN "decode" ELSE panicked

\* one turn of the first loop of decode
FastTurn ==
  /\ pc = "decoding"
  /\ in_fast_loop(decoding.pos_in, encoding)
  /\ turn_returns(fast_turn(native, loaded.decoder, encoding, decoding))
  /\ UNCHANGED <<callerVars, inputVars, builderVars, enc, encoding, decoded, decoded_safe, native,
                 loaded, encodings, decodings>>

\* one turn of the second loop of decode
TailTurn ==
  /\ pc = "decoding"
  /\ ~in_fast_loop(decoding.pos_in, encoding)
  /\ decoding.pos_in < Len(encoding)
  /\ turn_returns(tail_turn(native, loaded.decoder, encoding, decoding))
  /\ UNCHANGED <<callerVars, inputVars, builderVars, enc, encoding, decoded, decoded_safe, native,
                 loaded, encodings, decodings>>

\* decode_buf.truncate(pos_out); decode returns
DecodeEnd ==
  /\ pc = "decoding"
  /\ ~in_fast_loop(decoding.pos_in, encoding)
  /\ decoding.pos_in >= Len(encoding)
  /\ decoded' = SubSeq(decoding.out, 1, Min(decoding.pos_out, Len(decoding.out)))
  /\ pc' = "decoded_bytes"
  /\ UNCHANGED <<callerVars, inputVars, builderVars, enc, encoding, decoded_safe, native, loaded,
                 encodings, decodings, decoding, panicked>>

NextDecoder ==
  \/ LoadDecoder
  \/ DecodeStart
  \/ FastTurn
  \/ TailTurn
  \/ DecodeEnd

SpecDecoder == InitDecoder /\ [][NextDecoder]_vars

(***************************************************************************)
(* A caller of the SymbolTable trait that adds symbols, clears the table,  *)
(* looks strings up in it and finalizes it.                                *)
(***************************************************************************)
\* the symbols the caller adds: "a", "aa", "aa\0", "aa\0a", "aab" and "cd\0", whose
\* hash slot is that of "aa\0"
SymPool ==
  {<<97>>, <<97, 97>>, <<97, 97, 0>>, <<97, 97, 0, 97>>, <<97, 97, 98>>, <<99, 100, 0>>}

\* the strings the caller looks up
FindInputs ==
  SymPool \cup {<<97, 0>>, <<97, 98>>, <<97, 97, 0, 98>>, <<99>>, <<99, 100>>,
                <<97, 97, 0, 97, 97, 97, 97, 97, 97>>}

InitLookup ==
  /\ api = "lookup"
  /\ count_frac = 0
  /\ strings = << >>
  /\ pc = "lookup"
  /\ InitRest

\* what add(Symbol::from_str_bytes(bytes)) leaves; the caller keeps the symbols the
\* table took since the last clear in `strings`
add_returns(bytes, r) ==
  /\ symbol_table' = r.table
  /\ last_add' = [s |-> from_str_bytes(Little, bytes), gain |-> 0, ok |-> r.ok,
                  panic |-> r.panic]
  /\ strings' = IF r.ok THEN Append(strings, bytes) ELSE strings
  /\ pc' = IF r.panic THEN "panicked" ELSE pc
  /\ panicked' = IF r.panic THEN "add" ELSE panicked

\* symbol_table.add(Symbol::from_str_bytes(bytes))
AddToTable ==
  /\ pc = "lookup"
  /\ calls < MaxAdds
  /\ \E bytes \in SymPool, overflow_checks \in BOOLEAN :
       add_returns(bytes, table_add(symbol_table, from_str_bytes(Little, bytes),
                                    overflow_checks))
  /\ calls' = calls + 1
  /\ last_find' = NoFind
  /\ UNCHANGED <<last_concat, tally, last_get, api, samples, codecVars, count_frac, counter,
                 best_table, best_gain, best_single, rounds, sample_frac, sorted_vec>>

\* symbol_table.clear()
ClearTable ==
  /\ pc = "lookup"
  /\ symbol_table' = table_clear(symbol_table)
  /\ strings' = << >>
  /\ last_find' = NoFind
  /\ UNCHANGED <<last_concat, tally, last_get, api, samples, calls, codecVars, count_frac, counter,
                 best_table, best_gain, best_single, rounds, sample_frac, sorted_vec, last_add,
                 pc, panicked>>

\* symbol_table.find_longest_symbol_code(str)
FindLongest ==
  /\ pc = "lookup"
  /\ \E str \in FindInputs :
       last_find' = [str |-> str, code |-> find_longest_symbol_code(symbol_table, str)]
  /\ UNCHANGED <<last_concat, tally, last_get, inputVars, builderVars, codecVars, pc, panicked>>

\* symbol_table.finalize()
FinalizeTable ==
  /\ pc = "lookup"
  /\ symbol_table' = table_finalize(symbol_table)
  /\ pc' = "finalized"
  /\ last_find' = NoFind
  /\ UNCHANGED <<last_concat, tally, last_get, inputVars, codecVars, count_frac, counter, best_table,
                 best_gain, best_single, rounds, sample_frac, sorted_vec, last_add, panicked>>

NextLookup ==
  \/ AddToTable
  \/ ClearTable
  \/ FindLongest
  \/ FinalizeTable

SpecLookup == InitLookup /\ [][NextLookup]_vars

(***************************************************************************)
(* A caller of the Counter itself: as build() does, it counts codes and   *)
(* pairs in loops, then reads the counts back, then resets.                *)
(***************************************************************************)
\* how many times a loop of the caller runs
LoopCounts == {1, 255, 3840, 65280}

\* the codes the caller counts
SingleCodes == {0, 5, 511}

\* the pairs the caller counts: a second code that is even, one that is odd
ConcatPairs == {<<0, 0>>, <<0, 1>>}

\* the positions the caller begins to read at
ScanStarts == {0, 5, 510, 511}

InitCounter ==
  /\ api = "counter"
  /\ count_frac = 0
  /\ strings = << >>
  /\ pc = "counter"
  /\ InitRest

\* for _ in 0..n { counter.inc_single(pos) }
inc_single_loop(c, pos, n) == Times(LAMBDA x : inc_single(x, pos), c, n)

\* for _ in 0..n { counter.inc_concat(pos1, pos2) }
inc_concat_loop(c, pos1, pos2, n) == Times(LAMBDA x : inc_concat(x, pos1, pos2), c, n)

IncSingleLoop ==
  /\ pc = "counter"
  /\ last_get = NoGet
  /\ calls < MaxIncLoops
  /\ \E pos \in SingleCodes, n \in LoopCounts :
       /\ Get0(tally.single, pos) + n <= MaxSingleCalls
       /\ counter' = inc_single_loop(counter, pos, n)
       /\ tally' = [tally EXCEPT !.single = Put(@, pos, Get0(@, pos) + n)]
  /\ calls' = calls + 1
  /\ last_get' = NoGet
  /\ UNCHANGED <<last_find, last_concat, api, strings, samples, codecVars, count_frac, symbol_table, best_table,
                 best_gain, best_single, rounds, sample_frac, sorted_vec, last_add, pc, panicked>>

IncConcatLoop ==
  /\ pc = "counter"
  /\ last_get = NoGet
  /\ calls < MaxIncLoops
  /\ \E pair \in ConcatPairs, n \in LoopCounts :
       /\ Get0(tally.concat, pair) + n <= MaxConcatCalls
       /\ counter' = inc_concat_loop(counter, pair[1], pair[2], n)
       /\ tally' = [tally EXCEPT !.concat = Put(@, pair, Get0(@, pair) + n)]
  /\ calls' = calls + 1
  /\ last_get' = NoGet
  /\ UNCHANGED <<last_find, last_concat, api, strings, samples, codecVars, count_frac, symbol_table, best_table,
                 best_gain, best_single, rounds, sample_frac, sorted_vec, last_add, pc, panicked>>

\* counter.reset()
Reset ==
  /\ pc = "counter"
  /\ calls > 0
  /\ counter' = counter_new
  /\ tally' = NoTally
  /\ calls' = 0
  /\ last_get' = NoGet
  /\ UNCHANGED <<last_find, last_concat, api, strings, samples, codecVars, count_frac, symbol_table, best_table,
                 best_gain, best_single, rounds, sample_frac, sorted_vec, last_add, pc, panicked>>

\* what the caller knows after get_single_and_forward(&mut pos) with pos = start
got_single(begin, start, r, seen) ==
  [op |-> "single", pos1 |-> 0, first |-> begin, start |-> start, pos |-> r.pos,
   cnt |-> r.cnt, seen |-> IF r.cnt > 0 THEN Append(seen, r.pos) ELSE seen]

\* what the caller knows after get_concat_and_forward(pos1, &mut pos2) with pos2 = start
got_concat(pos1, start, r) ==
  [op |-> "concat", pos1 |-> pos1, first |-> start, start |-> start, pos |-> r.pos,
   cnt |-> r.cnt, seen |-> << >>]

\* let mut pos = start; counter.get_single_and_forward(&mut pos)
GetSingle ==
  /\ pc = "counter"
  /\ \E start \in ScanStarts :
       last_get' = got_single(start, start, get_single_and_forward(counter, start), << >>)
  /\ UNCHANGED <<last_find, last_concat, inputVars, builderVars, codecVars, tally, pc, panicked>>

\* the caller's loop goes on: pos += 1; counter.get_single_and_forward(&mut pos)
GetNextSingle ==
  /\ pc = "counter"
  /\ last_get.op = "single"
  /\ last_get.pos + 1 < ENTRY_SIZE
  /\ last_get' = got_single(last_get.first, last_get.pos + 1,
                            get_single_and_forward(counter, last_get.pos + 1),
                            last_get.seen)
  /\ UNCHANGED <<last_find, last_concat, inputVars, builderVars, codecVars, tally, pc, panicked>>

\* let mut pos2 = c2; counter.get_concat_and_forward(c1, &mut pos2)
GetConcat ==
  /\ pc = "counter"
  /\ \E pair \in ConcatPairs :
       last_get' = got_concat(pair[1], pair[2],
                              get_concat_and_forward(counter, pair[1], pair[2]))
  /\ UNCHANGED <<last_find, last_concat, inputVars, builderVars, codecVars, tally, pc, panicked>>

NextCounter ==
  \/ IncSingleLoop
  \/ IncConcatLoop
  \/ Reset
  \/ GetSingle
  \/ GetNextSingle
  \/ GetConcat

SpecCounter == InitCounter /\ [][NextCounter]_vars

(***************************************************************************)
(* A caller of Symbol's +                                                  *)
(***************************************************************************)
\* "123456789", the digits of test_symbol_add
Digits == <<49, 50, 51, 52, 53, 54, 55, 56, 57>>

\* the operands: the runs of Digits of one to MAX_LEN bytes
SymbolStrs ==
  {SubSeq(Digits, i, j) : i \in 1..Len(Digits), j \in 1..Len(Digits)} \ {<< >>, Digits}

InitConcat ==
  /\ api = "symbol"
  /\ count_frac = 0
  /\ strings \in {<<a, b>> : a \in SymbolStrs, b \in SymbolStrs}
  /\ pc = "symbol"
  /\ InitRest

\* rhs.num << (8 * this_len) shifts a u64 by 64 bits when this_len is 8: with
\* overflow checks it panics, without them the shift wraps to none
shl_overflows(a) == 8 * length(a) >= 64

\* Symbol::from_str(a) + Symbol::from_str(b)
Concat ==
  /\ pc = "symbol"
  /\ \E overflow_checks \in BOOLEAN :
       LET a == from_str_bytes(Little, strings[1])
           b == from_str_bytes(Little, strings[2])
           panic == overflow_checks /\ shl_overflows(a)
       IN /\ last_concat' = [a |-> a, b |-> b, s |-> IF panic THEN free ELSE symbol_add(a, b),
                             panic |-> panic]
          /\ pc' = IF panic THEN "panicked" ELSE "concatenated"
          /\ panicked' = IF panic THEN "symbol_add" ELSE panicked
  /\ UNCHANGED <<tally, last_get, last_find, inputVars, builderVars, codecVars>>

NextConcat == Concat

SpecConcat == InitConcat /\ [][NextConcat]_vars

(***************************************************************************)
(* The properties.                                                         *)
(***************************************************************************)
\* the (symbols, lens) arrays of two decoders are equal entry by entry
SameDecoder(d1, d2) ==
  \A c \in 0..(CODE_ESCAPE - 1) :
    DecSymbol(d1, c) = DecSymbol(d2, c) /\ DecLen(d1, c) = DecLen(d2, c)

\* the code stream of the string being encoded, without the table before it
CodeStream == SubSeq(enc.buf, 1, enc.pos_out)

\* C1: with a table the builder returned, encode(s, false) completes and decode of
\* the result returns exactly s
C1_RoundTripSingle ==
  /\ panicked \notin {"encode_str", "decode"}
  /\ pc = "decoded" => decoded = enc.str

\* C2: encode_all_strings(S) completes for every collection S, returns as many
\* encodings as S has strings, and decode_all_strings gives S back element by element
C2_RoundTripBatch ==
  /\ panicked \notin {"take_sample", "encode_all_strings", "decode_all_strings"}
  /\ pc = "encoded_all" => Len(encodings) = Len(strings)
  /\ pc = "decoded_all" => decodings = strings

\* C3: from_table_bytes(t.dump() ++ x), read on the machine that dumped, returns the
\* offset len(t.dump()) and the arrays of from_table(t), so the code stream x decodes
\* as it does with the table itself
C3_SerializationRoundTrip ==
  /\ ~(panicked = "from_table_bytes" /\ native = Little)
  /\ (pc \in {"loaded", "decoded_loaded"} /\ native = Little) =>
       /\ loaded.pos = Len(table_dump(Little, best_table))
       /\ loaded.pos + Len(CodeStream) = Len(encoding)
       /\ SameDecoder(loaded.decoder, from_table(best_table))
  /\ (pc = "decoded_loaded" /\ native = Little) =>
       decoded = decode(Little, from_table(best_table), CodeStream).out

\* a table was read back where it was dumped: it holds a symbol of two bytes or more
\* that is no palindrome, and a code stream follows it
C3_Witness ==
  /\ pc = "decoded_loaded"
  /\ native = Little
  /\ Len(CodeStream) > 0
  /\ \E c \in 0..(best_table.symbol_num - 1) :
       LET b == symbol_bytes(Little, get_symbol(best_table, c))
       IN Len(b) >= 2 /\ b[1] # b[Len(b)]

\* C4: on what encode(s, false) returned, decode and decode_with_tab return the same
C4_DecodersAgree ==
  /\ panicked # "decode_with_tab"
  /\ pc = "decoded_safe" => decoded_safe = decoded

\* both decoders ran on a stream long enough for the word-parallel loop that holds
\* an escape and a code of a symbol of two bytes or more
C4_Witness ==
  /\ pc = "decoded_safe"
  /\ Len(encoding) > 4
  /\ \E i \in 1..(Len(encoding) - 1) : encoding[i] = CODE_ESCAPE
  /\ \E c \in 0..(best_table.symbol_num - 1) :
       /\ length(get_symbol(best_table, c)) >= 2
       /\ encoding[1] = c

\* the learned symbol with code c stands in str at position pos (from 0)
SymbolAt(t, c, str, pos) ==
  LET b == symbol_bytes(Little, get_symbol(t, c))
  IN pos + Len(b) <= Len(str) /\ SubSeq(str, pos + 1, pos + Len(b)) = b

\* no learned symbol starts at position pos of str
NoSymbolAt(t, str, pos) == \A c \in 0..(t.symbol_num - 1) : ~SymbolAt(t, c, str, pos)

\* C5: at an input position where no learned symbol starts, the encoder emits the two
\* bytes 0xFF, b and consumes one byte
C5_EscapeEncoding ==
  [][(pc = "encoding" /\ enc.pos_in < Len(enc.str)
        /\ NoSymbolAt(best_table, enc.str, enc.pos_in)) =>
       /\ pc' = "encoding"
       /\ enc'.pos_in = enc.pos_in + 1
       /\ enc'.pos_out = enc.pos_out + 2
       /\ enc'.buf[enc.pos_out + 1] = CODE_ESCAPE
       /\ enc'.buf[enc.pos_out + 2] = enc.str[enc.pos_in + 1]]_vars

SumHisto(t) ==
  t.len_histo[1] + t.len_histo[2] + t.len_histo[3] + t.len_histo[4]
    + t.len_histo[5] + t.len_histo[6] + t.len_histo[7] + t.len_histo[8]

\* C6: in every state of a build and in the table it returns, len() <= 255 and the
\* entries of len_histo sum to len()
C6_Capacity ==
  \A t \in {symbol_table, best_table} :
    t.symbol_num <= 255 /\ SumHisto(t) = t.symbol_num

\* make_table stopped adding at 255 symbols with candidates left
C6_Witness ==
  /\ pc = "add"
  /\ symbol_table.symbol_num = 255
  /\ sorted_vec # EmptyMap

\* C7: a table dumped on a little-endian machine and read on a big-endian one gives
\* the arrays of from_table on the machine that dumped
C7_EndianPortability ==
  (pc = "loaded" /\ native = Big) => SameDecoder(loaded.decoder, from_table(best_table))

\* what finalize makes of table t is table u
Renumbered(t, u) ==
  LET n == t.symbol_num
      old(i) == get_symbol(t, CODE_BASE + i)
      same(e1, e2) ==
        /\ e2 \div Pow2(LEN_BITS) = e1 \div Pow2(LEN_BITS)
        /\ e2 % CODE_MAX < n
        /\ symbol_eq(get_symbol(u, e2 % CODE_MAX), get_symbol(t, e1 % CODE_MAX))
  IN /\ u.symbol_num = n
     /\ \A i \in 0..(n - 1) : code_of(old(i)) = CODE_BASE + i
     /\ \A c \in 0..(n - 1) : code_of(get_symbol(u, c)) = c
     /\ \A i \in 0..(n - 1) : \E c \in 0..(n - 1) : symbol_eq(get_symbol(u, c), old(i))
     /\ \A c \in 0..(n - 1) : \E i \in 0..(n - 1) : symbol_eq(get_symbol(u, c), old(i))
     /\ \A c \in 0..(n - 2) : length(get_symbol(u, c)) <= length(get_symbol(u, c + 1))
     /\ \A b \in 0..(CODE_BASE - 1) :
          ByteCode(t, b) % CODE_MAX >= CODE_BASE => same(ByteCode(t, b), ByteCode(u, b))
     /\ \A i \in DOMAIN t.short_codes :
          ShortCode(t, i) % CODE_MAX >= CODE_BASE => same(ShortCode(t, i), ShortCode(u, i))
     /\ \A h \in DOMAIN t.hash_table :
          taken(t.hash_table[h]) =>
            /\ code_of(u.hash_table[h]) < n
            /\ u.hash_table[h] = get_symbol(u, code_of(u.hash_table[h]))
            /\ symbol_eq(u.hash_table[h], t.hash_table[h])
            /\ symbol_eq(t.hash_table[h], get_symbol(t, code_of(t.hash_table[h])))

\* C8: finalize moves the n learned symbols from the codes 256..256+n-1 to the codes
\* 0..n-1, one to one and in the order of their lengths, and every byte_codes,
\* short_codes and hash_table entry of a learned symbol follows it
C8_FinalizeRenumbers == [][pc = "finalize" => Renumbered(best_table, best_table')]_vars

\* a finalized table whose symbols were added out of the order of their lengths and
\* stand in all three lookup structures
C8_Witness ==
  /\ pc = "built"
  /\ \E i, j \in 0..(best_table.symbol_num - 1) :
       /\ i < j
       /\ length(get_symbol(best_table, CODE_BASE + i))
            > length(get_symbol(best_table, CODE_BASE + j))
  /\ \E c \in 0..(best_table.symbol_num - 1) : length(get_symbol(best_table, c)) = 1
  /\ \E c \in 0..(best_table.symbol_num - 1) : length(get_symbol(best_table, c)) = 2
  /\ \E c \in 0..(best_table.symbol_num - 1) : length(get_symbol(best_table, c)) >= 3

\* C9: add of a symbol of three bytes or more whose hash slot is taken returns false
\* and changes nothing in the table; make_table drops the candidate and goes on
C9_CollisionRejected ==
  [][\A final \in BOOLEAN :
       (/\ pc = (IF final THEN "final_add" ELSE "add")
        /\ pc' \in {pc, "panicked"}
        /\ length(last_add'.s) >= 3
        /\ taken(get_hash_symbol(BuildTable(final), hash_idx(last_add'.s)))) =>
         /\ ~last_add'.ok
         /\ ~last_add'.panic
         /\ symbol_table' = symbol_table
         /\ best_table' = best_table
         /\ pc' = pc
         /\ CandKey(last_add'.s) \in DOMAIN sorted_vec
         /\ sorted_vec' = [x \in (DOMAIN sorted_vec) \ {CandKey(last_add'.s)} |-> sorted_vec[x]]]_vars

\* make_table had a candidate of three bytes or more rejected and has more to try
C9_Witness ==
  /\ pc \in {"add", "final_add"}
  /\ ~last_add.ok
  /\ length(last_add.s) >= 3
  /\ length(last_add.s) <= MAX_LEN
  /\ sorted_vec # EmptyMap

\* C10: add on a table of 255 symbols returns false and leaves the table as it is
C10_AddAtCapacity ==
  [][(pc = "table" /\ symbol_table.symbol_num = 255) =>
       /\ ~last_add'.ok
       /\ ~last_add'.panic
       /\ symbol_table' = symbol_table]_vars

\* the finalized table t holds a symbol of one byte that is the byte b
HasSingle(t, b) ==
  \E c \in 0..(t.symbol_num - 1) :
    length(get_symbol(t, c)) = 1 /\ first(get_symbol(t, c)) = b

\* C11: the table build_from returns for "tumcwitumvldb" holds a symbol of one byte
\* for every distinct byte of the string
C11_SingleByteCoverage ==
  (pc = "built" /\ api = "build_from" /\ strings = <<ExampleStr>>) =>
    \A i \in DOMAIN ExampleStr : HasSingle(best_table, ExampleStr[i])

\* C12: whatever the bytes handed to decode, every 8-byte store of either loop lands
\* inside decode_buf, and a turn of the first loop reads its four bytes and the byte
\* after an escape inside the input
C12_DecoderMemorySafety ==
  [][pc = "decoding" =>
       /\ ~decoding'.ub
       /\ in_fast_loop(decoding.pos_in, encoding) =>
            /\ decoding.pos_in + 4 <= Len(encoding)
            /\ ~decoding'.panic]_vars

\* decode went through the first loop, and its last store ended at the last byte of
\* decode_buf
C12_Witness ==
  /\ pc = "decoded_bytes"
  /\ Len(encoding) > 4
  /\ decoding.pos_out = Len(decoding.out)
  /\ decoding.pos_out = MAX_LEN * Len(encoding)

\* C13: after N calls of inc_single(c) since the reset and none on the seven codes
\* after c, get_single_and_forward with pos = c leaves pos at c and returns N, or
\* 65535 when N is above 65535
C13_SingleCount ==
  (/\ last_get.op = "single"
   /\ last_get.start \in DOMAIN tally.single
   /\ \A q \in (last_get.start + 1)..(last_get.start + 7) : q \notin DOMAIN tally.single) =>
    /\ last_get.pos = last_get.start
    /\ last_get.cnt = Min(tally.single[last_get.start], 65535)

\* C14: after N calls of inc_concat(c1, c2) since the reset and none on another pair,
\* get_concat_and_forward(c1, pos2 = c2) leaves pos2 at c2 and returns N, or 4095
\* when N is above 4095
C14_PairCount ==
  (/\ last_get.op = "concat"
   /\ DOMAIN tally.concat = {<<last_get.pos1, last_get.start>>}) =>
    /\ last_get.pos = last_get.start
    /\ last_get.cnt = Min(tally.concat[<<last_get.pos1, last_get.start>>], 4095)

\* the codes counted since the reset in the window of a call that begins at p
WindowCodes(p) ==
  {q \in DOMAIN tally.single : q >= p /\ q < Min(p + U64_SIZE, ENTRY_SIZE)}

Least(S) == CHOOSE q \in S : \A r \in S : q <= r

\* C15: get_single_and_forward(p) stops at the first counted code q of the window
\* p..min(p + 8, 512) and returns q's count; with none it returns 0 and pos += 1
\* leads to p + 8.  So the loop `call; pos += 1` from a position to the end visits
\* every counted code from there on once, in ascending order
C15_ScanPositioning ==
  last_get.op = "single" =>
    LET W == WindowCodes(last_get.start)
    IN /\ W # {} => /\ last_get.pos = Least(W)
                    /\ last_get.cnt = tally.single[Least(W)]
       /\ W = {} => /\ last_get.cnt = 0
                    /\ last_get.pos + 1 = last_get.start + U64_SIZE
       /\ last_get.pos + 1 >= ENTRY_SIZE =>
            /\ {last_get.seen[i] : i \in DOMAIN last_get.seen}
                 = {q \in DOMAIN tally.single : q >= last_get.first}
            /\ \A i, j \in DOMAIN last_get.seen :
                 i < j => last_get.seen[i] < last_get.seen[j]

\* the 4-bit high counter of the pair (pos1, pos2)
HighNibble(c, pos1, pos2) ==
  LET byte == Get0(c.concat_high, <<pos1, pos2 \div 2>>)
  IN IF pos2 % 2 = 0 THEN byte % 16 ELSE byte \div 16

\* C16: single_high[c] is above zero exactly when inc_single(c) was called since the
\* last reset, and the high nibble of a pair exactly when inc_concat was called on it
C16_EarlyIncrement ==
  /\ \A c \in 0..(ENTRY_SIZE - 1) :
       Get0(counter.single_high, c) > 0 <=> c \in DOMAIN tally.single
  /\ \A pos1 \in {pair[1] : pair \in ConcatPairs}, pos2 \in 0..(ENTRY_SIZE - 1) :
       HighNibble(counter, pos1, pos2) > 0 <=> <<pos1, pos2>> \in DOMAIN tally.concat

\* the learned codes of the table t that is not finalized whose symbols stand at the
\* head of str
Matches(t, str) ==
  {c \in CODE_BASE..(CODE_BASE + t.symbol_num - 1) : SymbolAt(t, c, str, 0)}

\* no element of the sequence occurs twice
Distinct(seq) == \A i, j \in DOMAIN seq : i # j => seq[i] # seq[j]

\* C17: on a table of pairwise distinct symbols that is not finalized,
\* find_longest_symbol_code returns the code of the longest learned symbol that is a
\* prefix of the input, and the code of the first byte when there is none
C17_LongestMatch ==
  (pc = "lookup" /\ last_find.str # << >> /\ Distinct(strings)) =>
    LET m == Matches(symbol_table, last_find.str)
    IN IF m = {} THEN last_find.code = last_find.str[1]
       ELSE /\ last_find.code \in m
            /\ \A c \in m : length(get_symbol(symbol_table, c))
                               <= length(get_symbol(symbol_table, last_find.code))

\* a lookup found a symbol of three bytes or more in the hash table while two shorter
\* learned symbols are prefixes of the input too
C17_Witness ==
  /\ pc = "lookup"
  /\ Distinct(strings)
  /\ Cardinality(Matches(symbol_table, last_find.str)) = 3
  /\ last_find.code >= CODE_BASE
  /\ length(get_symbol(symbol_table, last_find.code)) >= 3

\* the codes of the learned symbols of table t
LearnedCodes(t) ==
  IF t.finalized THEN 0..(t.symbol_num - 1)
  ELSE CODE_BASE..(CODE_BASE + t.symbol_num - 1)

\* the learned symbol with code c is found where symbols of its length are looked up,
\* under its own code and length
Reachable(t, c) ==
  LET s == get_symbol(t, c)
  IN CASE length(s) = 1 ->
            /\ ByteCode(t, first(s)) % CODE_MAX = c
            /\ ByteCode(t, first(s)) \div Pow2(LEN_BITS) = 1
       [] length(s) = 2 ->
            /\ ShortCode(t, first2(s)) % CODE_MAX = c
            /\ ShortCode(t, first2(s)) \div Pow2(LEN_BITS) = 2
       [] OTHER ->
            /\ get_hash_symbol(t, hash_idx(s)).num = s.num
            /\ code_of(get_hash_symbol(t, hash_idx(s))) = c
            /\ length(get_hash_symbol(t, hash_idx(s))) = length(s)

\* C18: after any calls of clear and add, and after finalize, every learned symbol
\* is found in byte_codes, short_codes or hash_table under its code and length
C18_LookupReachable ==
  pc \in {"lookup", "finalized"} =>
    \A c \in LearnedCodes(symbol_table) : Reachable(symbol_table, c)

(***************************************************************************)
(* build(): the counting rounds                                            *)
(***************************************************************************)
\* where build() stands while it runs
BuildPcs == {"compute_freq", "make_table", "add", "restore", "final_make_table",
             "final_add", "finalize"}

\* a step of build(): each one moves build() on or pops a candidate
BuildStep == pc \in BuildPcs /\ <<pc, sorted_vec>>' # <<pc, sorted_vec>>

\* build() is a sequential function: while it runs, it takes its next step (weak
\* fairness of its steps, which are enabled wherever build() stands)
FairSpec == Spec /\ ([]<>(pc \notin BuildPcs) \/ []<><<BuildStep>>_vars)

\* the sample_frac of the rounds, in their order
RoundFracs == <<FIRST_FRAC, FIRST_FRAC + FRAC_STEP, FIRST_FRAC + 2 * FRAC_STEP,
                FIRST_FRAC + 3 * FRAC_STEP, LAST_FRAC>>

\* the earliest of the rounds rs whose gain no other round exceeds
BestRound(rs) ==
  CHOOSE k \in DOMAIN rs :
    /\ \A i \in DOMAIN rs : rs[i].gain <= rs[k].gain
    /\ \A i \in 1..(k - 1) : rs[i].gain < rs[k].gain

\* the symbols a table has learned, as (value, length)
LearnedSymbols(t) == {CandKey(get_symbol(t, c)) : c \in LearnedCodes(t)}

\* where build() stands: the rounds behind it are those of RoundFracs in their
\* order; make_table runs after the first four rounds only and the counter is new
\* when the next round starts; the best snapshot is the earliest round of the
\* greatest gain; after the loop five rounds are done
RoundsInOrder ==
  /\ Len(rounds) <= Len(RoundFracs)
  /\ \A i \in DOMAIN rounds : rounds[i].sample_frac = RoundFracs[i]
  /\ panicked # "add"
  /\ panicked = "take_sample" => rounds = << >>
  /\ pc = "compute_freq" =>
       /\ Len(rounds) < Len(RoundFracs)
       /\ sample_frac = RoundFracs[Len(rounds) + 1]
       /\ rounds # << >> => counter = counter_new
  /\ pc \in {"make_table", "add"} =>
       /\ Len(rounds) \in 1..(Len(RoundFracs) - 1)
       /\ sample_frac = RoundFracs[Len(rounds)]
  /\ (pc \notin {"start", "compute_freq", "make_table", "add"} /\ panicked # "take_sample") =>
       /\ Len(rounds) = Len(RoundFracs)
       /\ sample_frac = LAST_FRAC
  /\ rounds # << >> =>
       LET k == BestRound(rounds)
       IN /\ best_gain = <<rounds[k].gain>>
          /\ best_single = rounds[k].single
          /\ pc \in {"compute_freq", "make_table", "add", "restore", "final_make_table"} =>
               best_table = rounds[k].table
          /\ pc \in {"final_add", "finalize"} =>
               \A s \in LearnedSymbols(best_table) :
                 s[2] = 1 \/ s \in LearnedSymbols(rounds[k].table)

\* the steps of build(): a round is followed by make_table unless it is the fifth;
\* make_table in the loop is followed by the counter's reset and the next
\* sample_frac; the make_table after the loop works on the best round's table and
\* single counts alone, whatever the pair counters hold; finalize ends build()
RoundSteps ==
  /\ pc = "compute_freq" =>
       pc' = IF Len(rounds') < Len(RoundFracs) THEN "make_table" ELSE "restore"
  /\ (pc = "add" /\ pc' # "add") =>
       /\ pc' = "compute_freq"
       /\ counter' = counter_new
       /\ sample_frac' = sample_frac + FRAC_STEP
  /\ pc = "final_make_table" =>
       LET k == BestRound(rounds)
       IN /\ sorted_vec' = make_candidates(restore_single(counter_new, rounds[k].single),
                                           rounds[k].table, LAST_FRAC, count_frac)
          /\ best_table' = table_clear(rounds[k].table)
  /\ pc = "finalize" => pc' = "built" /\ best_table' = table_finalize(best_table)

\* C19: build() ends after five counting rounds of sample_frac 8, 38, 68, 98 and
\* 128; make_table and the counter's reset follow each of the first four rounds
\* only; the best snapshot is replaced only by a round of strictly greater gain; the
\* table returned is finalize of make_table at 128 on the table and single counts of
\* the earliest round of greatest gain, with no pair among its candidates
C19_RoundProtocol ==
  /\ []RoundsInOrder
  /\ [][RoundSteps]_vars
  /\ (pc = "compute_freq") ~> (pc = "built")

\* build() has returned, a round after the first was the best, and a later round
\* had the same gain on another table
C19_Witness ==
  /\ pc = "built"
  /\ BestRound(rounds) > 1
  /\ \E j \in DOMAIN rounds :
       /\ j > BestRound(rounds)
       /\ rounds[j].gain = rounds[BestRound(rounds)].gain
       /\ rounds[j].table # rounds[BestRound(rounds)].table

(***************************************************************************)
(* make_table: the order of the candidates                                 *)
(***************************************************************************)
\* a turn of make_table's while loop pops the candidate k
Popped(k) ==
  /\ pc \in {"add", "final_add"}
  /\ k \in DOMAIN sorted_vec
  /\ DOMAIN sorted_vec' = (DOMAIN sorted_vec) \ {k}

\* C20: make_table offers the candidates to add in the order of non-increasing
\* gain, and of candidates of equal gain the one of the larger symbol value first
C20_LargerValueFirst ==
  [][\A k \in DOMAIN sorted_vec :
       Popped(k) =>
         \A o \in DOMAIN sorted_vec' :
           /\ sorted_vec[o] <= sorted_vec[k]
           /\ sorted_vec[o] = sorted_vec[k] => ~NumLess(k[1], o[1])]_vars

\* C20 as the code has it: make_table offers the candidates to add in the order of
\* non-increasing gain, and of candidates of equal gain the one of the smaller
\* symbol value first
C20_SmallerValueFirst ==
  [][\A k \in DOMAIN sorted_vec :
       Popped(k) =>
         \A o \in DOMAIN sorted_vec' :
           /\ sorted_vec[o] <= sorted_vec[k]
           /\ sorted_vec[o] = sorted_vec[k] => ~NumLess(o[1], k[1])]_vars

\* make_table has just added a candidate, the last symbol of its table, and a
\* candidate of the same gain and a larger value is still to come
C20_Witness ==
  /\ pc \in {"add", "final_add"}
  /\ last_add.ok
  /\ LET t == BuildTable(pc = "final_add")
     IN /\ t.symbol_num > 0
        /\ CandKey(get_symbol(t, CODE_BASE + t.symbol_num - 1)) = CandKey(last_add.s)
  /\ \E o \in DOMAIN sorted_vec :
       /\ sorted_vec[o] = last_add.gain
       /\ NumLess(last_add.s.num, o[1])

(***************************************************************************)
(* Symbol: a + b                                                           *)
(***************************************************************************)
\* the first n bytes of a sequence, all of it when it is shorter
Take(seq, n) == SubSeq(seq, 1, Min(n, Len(seq)))

\* C21: for symbols a and b of one to eight bytes, a + b has the length
\* min(la + lb, 8), its bytes are the first min(la + lb, 8) bytes of a's bytes
\* followed by b's, its unused high bytes are zero and its code is CODE_MASK
C21_Concatenation ==
  (api = "symbol" /\ pc # "symbol") =>
    LET n == Min(Len(strings[1]) + Len(strings[2]), MAX_LEN)
    IN /\ ~last_concat.panic
       /\ length(last_concat.s) = n
       /\ last_concat.s.num = Pad8(Take(strings[1] \o strings[2], n))
       /\ code_of(last_concat.s) = CODE_MASK

(***************************************************************************)
(* encode_str: what a turn of the loop consumes and emits                  *)
(***************************************************************************)
\* the turn of encode_str from enc to enc' consumes the bytes of one learned symbol
\* that stands at pos_in and emits its code, or consumes one byte b and emits 0xFF, b
Covers ==
  LET used == enc'.pos_in - enc.pos_in
      out == enc'.pos_out - enc.pos_out
      c == enc'.buf[enc.pos_out + 1]
  IN \/ /\ out = 1
        /\ c < best_table.symbol_num
        /\ SymbolAt(best_table, c, enc.str, enc.pos_in)
        /\ used = length(get_symbol(best_table, c))
     \/ /\ out = 2
        /\ c = CODE_ESCAPE
        /\ enc'.buf[enc.pos_out + 2] = enc.str[enc.pos_in + 1]
        /\ used = 1

\* C22: every turn of encode_str's loop consumes at least one byte and no more than
\* are left, emits one or two bytes, keeps pos_out <= 2 * pos_in, and consumes a
\* symbol that stands in the input or escapes one byte, so that the loop ends with
\* pos_in = len(s)
C22_EncoderConsumption ==
  [][(pc = "encoding" /\ enc.pos_in < Len(enc.str)) =>
       /\ pc' = "encoding"
       /\ enc'.pos_in - enc.pos_in \in 1..(Len(enc.str) - enc.pos_in)
       /\ enc'.pos_out - enc.pos_out \in {1, 2}
       /\ enc'.pos_out <= 2 * enc'.pos_in
       /\ Covers]_vars

(***************************************************************************)
(* Counter: what an increment leaves alone                                 *)
(***************************************************************************)
\* what get_single_and_forward returns for the code d itself: its count, 0 when the
\* scan from d moves on
SingleCount(c, d) ==
  LET r == get_single_and_forward(c, d)
  IN IF r.pos = d THEN r.cnt ELSE 0

\* what get_concat_and_forward returns for the pair (d1, d2) itself
PairCount(c, d1, d2) ==
  LET r == get_concat_and_forward(c, d1, d2)
  IN IF r.pos = d2 THEN r.cnt ELSE 0

\* the codes and pairs read before and after an increment: those incremented, their
\* neighbours in the high nibbles and bytes, and others
WatchedCodes == SingleCodes \cup {1, 4, 6, 510}

WatchedPairs == ConcatPairs \cup {<<0, 2>>, <<0, 3>>, <<1, 0>>, <<1, 1>>}

\* C23: inc_concat(c1, c2) changes the count of no other pair, the neighbour
\* (c1, c2 xor 1) that shares its high byte included, and of no single code;
\* inc_single(c) changes the count of no other single code and of no pair;
\* after any number of increments
C23_IncrementFrame ==
  [][(pc = "counter" /\ calls' = calls + 1) =>
       /\ \A d \in WatchedCodes :
            Get0(tally'.single, d) = Get0(tally.single, d) =>
              SingleCount(counter', d) = SingleCount(counter, d)
       /\ \A p \in WatchedPairs :
            Get0(tally'.concat, p) = Get0(tally.concat, p) =>
              PairCount(counter', p[1], p[2]) = PairCount(counter, p[1], p[2])]_vars

==============================================================================
